---------------------------- MODULE Spec2Model ----------------------------
(***************************************************************************)
(* Metrics engine of collab-dev: the functions of components/charts/*/data *)
(* that turn the event frame of a repository (one row per pull-request     *)
(* lifecycle event) into aggregate results.                                *)
(* With it, the fetcher that fills the event store: the conversion of a    *)
(* pull request's timeline into events and the runs of fetch_pull_requests *)
(* on the files of a repository directory.                                 *)
(*                                                                         *)
(* Representation.  An instant is a whole number of hours.  A value that   *)
(* the code computes as a float number of hours is held exactly, as a      *)
(* whole number of quarter hours (1 h = 4): differences of instants,       *)
(* medians and the 25/50/75 linear-interpolation percentiles of such       *)
(* differences are all multiples of a quarter hour.  A percentage is held  *)
(* as the exact fraction [num, den].                                       *)
(***************************************************************************)
EXTENDS Integers, Sequences, FiniteSets, TLC

VARIABLES
    repo_df,              \* the caller's event frame: a sequence of rows
    time_dtype,           \* dtype of repo_df["time"]: "object" or "datetime64"
    total_lines_changed,  \* the argument of get_pr_size_category
    chart_modules,        \* what get_chart_modules() returns: the charts found
    data_dir,             \* the files of ./data/<owner>/<name> written by the fetcher
    max_prs,              \* the max_prs argument of the last fetch_pull_requests
    call,                 \* the function called last ("none" before any call)
    ret                   \* what that call returned

vars ==
    <<repo_df, time_dtype, total_lines_changed, chart_modules, data_dir, max_prs, call, ret>>

(***************************************************************************)
(* Bounds of the model.                                                    *)
(***************************************************************************)
MaxLines == 1100    \* get_pr_size_category is applied to 0..MaxLines
MaxRows == 3        \* rows of an event frame
MaxTime == 1        \* instants of the approval-time frames are 0..MaxTime
MaxMergeRows == 4   \* rows of a merge-time frame
MaxStatRows == 4    \* rows of a frame of several PRs with reviews
MaxEngineRows == 3  \* rows of a frame given to every metric function
MaxCharts == 3      \* chart packages that get_chart_modules finds
MaxNullRows == 2    \* rows added to the frame with a reviewer-less request
MaxPrsLimit == 3    \* max_prs is None or in 0..MaxPrsLimit
MaxTimelineItems == 2  \* timeline items of the pull request that is processed

PRNumbers == {1, 2}

(***************************************************************************)
(* Python values.                                                          *)
(***************************************************************************)
NoneValue == [type |-> "NoneType"]

\* a float number of hours, held as q quarter hours
Float(q) == [type |-> "float", q |-> q]

\* a float rounded to one decimal by .round(1), held as a number of tenths
Decimal1(tenths) == [type |-> "float", tenths |-> tenths]

Str(s) == [type |-> "str", s |-> s]

DataFrame(rows) == [type |-> "DataFrame", rows |-> rows]

NdArray(values) == [type |-> "ndarray", values |-> values]

\* a missing value of a column read from CSV
NaN == "<NaN>"

None == "<None>"

RECURSIVE GCD(_, _)
GCD(a, b) == IF b = 0 THEN a ELSE GCD(b, a % b)

\* the float num/den (num >= 0, den > 0), held as the fraction in lowest terms
Fraction(num, den) ==
    [type |-> "float", num |-> num \div GCD(num, den), den |-> den \div GCD(num, den)]

\* bool(x) of a user cell is False for None and the empty string; NaN is truthy
Falsy(u) == u \in {None, ""}

\* the elementwise == of pandas: a missing value equals nothing, itself included
PandasEq(a, b) == a # NaN /\ b # NaN /\ a # None /\ b # None /\ a = b

NaT == -1000

\* (t2 - t1).total_seconds() / 3600 for whole-hour instants, in quarter hours
Hours(t1, t2) == 4 * (t2 - t1)

(***************************************************************************)
(* Frame helpers.                                                          *)
(***************************************************************************)
Min(S) == CHOOSE x \in S : \A y \in S : x <= y

Max(S) == CHOOSE x \in S : \A y \in S : x >= y

RECURSIVE SortedSeqOfSet(_)
SortedSeqOfSet(S) ==
    IF S = {} THEN <<>> ELSE <<Min(S)>> \o SortedSeqOfSet(S \ {Min(S)})

\* df[df["event_type"] == e]
OfType(df, e) == SelectSeq(df, LAMBDA r : r.event_type = e)

\* df.groupby("pr_number")["time"].first(): per pr_number, the time of the
\* first row of the group in row order
GroupbyTimeFirst(df) ==
    [p \in {df[i].pr_number : i \in 1..Len(df)} |->
        df[Min({i \in 1..Len(df) : df[i].pr_number = p})].time]

\* pd.DataFrame({"request_time": a, "approval_time": b}): the two series
\* aligned on the union of their indexes, NaT where one has no entry
AlignedFrame(a, b) ==
    [p \in (DOMAIN a) \cup (DOMAIN b) |->
        [request_time |-> IF p \in DOMAIN a THEN a[p] ELSE NaT,
         approval_time |-> IF p \in DOMAIN b THEN b[p] ELSE NaT]]

\* mutant: the frame kept whole, rows with a missing value included
Dropna_KeepAll(m) == m

\* .dropna(): the rows without a missing value
Dropna(m) ==
    [p \in {x \in DOMAIN m : m[x].request_time # NaT /\ m[x].approval_time # NaT}
        |-> m[p]]

\* Series.median() of a non-empty sequence of quarter-hour values: the middle
\* of the sorted values, the mean of the two middle ones for an even count
Median(s) ==
    LET v == SortSeq(s, LAMBDA a, b : a < b)
        n == Len(v)
    IN  IF n % 2 = 1 THEN v[(n + 1) \div 2]
        ELSE (v[n \div 2] + v[n \div 2 + 1]) \div 2

RECURSIVE SumSeq(_)
SumSeq(s) == IF s = <<>> THEN 0 ELSE Head(s) + SumSeq(Tail(s))

\* num/den (den > 0) rounded to the nearest integer, a tie to the even one,
\* as numpy's round does
RoundHalfEven(num, den) ==
    LET f == num \div den
        r == num % den
    IN  IF 2 * r < den THEN f
        ELSE IF 2 * r > den THEN f + 1
        ELSE IF f % 2 = 0 THEN f ELSE f + 1

\* the values of column c of a pr_number-indexed frame, in index order
Column(m, c) ==
    LET idx == SortedSeqOfSet(DOMAIN m)
    IN  [i \in 1..Len(idx) |-> m[idx[i]][c]]

(***************************************************************************)
(* Exceptions and frames that lack a column.                               *)
(***************************************************************************)
\* the call did not return: exception exc reached the caller
Raise(exc) == [type |-> "raise", exc |-> exc]

\* c in df.columns; df[c] raises KeyError otherwise
HasColumn(df, c) == \A i \in 1..Len(df) : c \in DOMAIN df[i]

(***************************************************************************)
(* approval_time/data.py                                                   *)
(***************************************************************************)
\* mutant: a PR of exactly 10 lines is still XS
get_pr_size_category_Inclusive(lines) ==
    IF lines <= 10 THEN "XS (<10 lines)"
    ELSE IF lines < 100 THEN "S (10-99 lines)"
    ELSE IF lines < 500 THEN "M (100-499 lines)"
    ELSE IF lines < 1000 THEN "L (500-999 lines)"
    ELSE "XL (1000+ lines)"

get_pr_size_category(lines) ==
    IF lines < 10 THEN "XS (<10 lines)"
    ELSE IF lines < 100 THEN "S (10-99 lines)"
    ELSE IF lines < 500 THEN "M (100-499 lines)"
    ELSE IF lines < 1000 THEN "L (500-999 lines)"
    ELSE "XL (1000+ lines)"

\* pr_lines: per pr_number, max(lines_added) + max(lines_deleted)
calculate_total_lines_changed(df) ==
    [p \in {df[i].pr_number : i \in 1..Len(df)} |->
        Max({df[i].lines_added : i \in {j \in 1..Len(df) : df[j].pr_number = p}})
        + Max({df[i].lines_deleted : i \in {j \in 1..Len(df) : df[j].pr_number = p}})]

\* matched_prs of calculate_pat / get_approval_time_data, with the
\* approval_time_hours column
matched_prs(df) ==
    LET review_requests == GroupbyTimeFirst(OfType(df, "review_requested"))
        approvals == GroupbyTimeFirst(OfType(df, "review_approved"))
        m == Dropna(AlignedFrame(review_requests, approvals))
    IN  [p \in DOMAIN m |->
            [request_time |-> m[p].request_time,
             approval_time |-> m[p].approval_time,
             approval_time_hours |-> Hours(m[p].request_time, m[p].approval_time)]]

\* mutant: 0.0 hours, not None, when no PR has both a request and an approval
calculate_pat_Zero(df) ==
    IF Len(df) = 0 THEN NoneValue
    ELSE IF ~HasColumn(df, "event_type") THEN NoneValue
    ELSE IF DOMAIN matched_prs(df) = {} THEN Float(0)
    ELSE Float(Median(Column(matched_prs(df), "approval_time_hours")))

\* the instants of a frame are parseable, so pd.to_datetime does not raise;
\* the KeyError of repo_df["event_type"] on a frame that lacks the column is
\* caught by the except clause of lines 34-36
calculate_pat(df) ==
    IF Len(df) = 0 THEN NoneValue
    ELSE IF ~HasColumn(df, "event_type") THEN NoneValue
    ELSE IF DOMAIN matched_prs(df) = {} THEN NoneValue
    ELSE Float(Median(Column(matched_prs(df), "approval_time_hours")))

\* matched_prs of get_approval_time_data after the left merge with pr_lines
\* and with the size_category column
sized_prs(df) ==
    LET m == matched_prs(df)
        pr_lines == calculate_total_lines_changed(df)
    IN  [p \in DOMAIN m |->
            [approval_time_hours |-> m[p].approval_time_hours,
             total_lines_changed |-> pr_lines[p],
             size_category |-> get_pr_size_category(pr_lines[p])]]

\* groupby("size_category").agg(median, count, mean).round(1): one row per
\* category that has a matched PR
size_stats(df) ==
    LET m == sized_prs(df)
        cats == {m[p].size_category : p \in DOMAIN m}
        grp(c) == [p \in {x \in DOMAIN m : m[x].size_category = c} |-> m[p]]
    IN  [c \in cats |->
            [median_hours |->
                Decimal1(RoundHalfEven(
                    10 * Median(Column(grp(c), "approval_time_hours")), 4)),
             pr_count |-> Cardinality(DOMAIN grp(c)),
             avg_lines |->
                Decimal1(RoundHalfEven(
                    10 * SumSeq(Column(grp(c), "total_lines_changed")),
                    Cardinality(DOMAIN grp(c))))]]

get_approval_time_data(df) ==
    IF Len(df) = 0 THEN NoneValue
    ELSE IF calculate_pat(df) = NoneValue THEN NoneValue
    ELSE IF DOMAIN calculate_total_lines_changed(df) = {} THEN NoneValue
    ELSE IF DOMAIN matched_prs(df) = {} THEN NoneValue
    ELSE [type |-> "dict",
          overall_median |-> calculate_pat(df),
          size_stats |-> size_stats(df)]

SizeOrder ==
    <<"XS (<10 lines)", "S (10-99 lines)", "M (100-499 lines)", "L (500-999 lines)",
      "XL (1000+ lines)">>

\* the frame of size statistics, one row per category that has a matched
\* PR, in the order XS to XL; an empty frame when there is nothing to report
\* and when the except clause of lines 221-222 is taken
calculate_pat_by_size(df) ==
    IF Len(df) = 0 THEN DataFrame(<<>>)
    ELSE IF ~HasColumn(df, "event_type") THEN DataFrame(<<>>)
    ELSE IF DOMAIN calculate_total_lines_changed(df) = {} THEN DataFrame(<<>>)
    ELSE IF DOMAIN matched_prs(df) = {} THEN DataFrame(<<>>)
    ELSE LET m == sized_prs(df)
             grp(c) == [p \in {x \in DOMAIN m : m[x].size_category = c} |-> m[p]]
             cats == SelectSeq(SizeOrder,
                        LAMBDA c : \E p \in DOMAIN m : m[p].size_category = c)
         IN  DataFrame([k \in 1..Len(cats) |->
                [size_category |-> cats[k],
                 median_hours |->
                    Decimal1(RoundHalfEven(
                        10 * Median(Column(grp(cats[k]), "approval_time_hours")), 4)),
                 mean_hours |->
                    Decimal1(RoundHalfEven(
                        10 * SumSeq(Column(grp(cats[k]), "approval_time_hours")),
                        4 * Cardinality(DOMAIN grp(cats[k])))),
                 pr_count |-> Cardinality(DOMAIN grp(cats[k])),
                 avg_lines |->
                    Decimal1(RoundHalfEven(
                        10 * SumSeq(Column(grp(cats[k]), "total_lines_changed")),
                        Cardinality(DOMAIN grp(cats[k]))))]])

(***************************************************************************)
(* pr_merge_time/data.py                                                   *)
(***************************************************************************)
RECURSIVE FlattenSeq(_)
FlattenSeq(ss) == IF ss = <<>> THEN <<>> ELSE Head(ss) \o FlattenSeq(Tail(ss))

\* mutant: the cross join, every left row paired with every right row
MergeOnPrNumber_Cross(left, right) ==
    FlattenSeq([i \in 1..Len(left) |->
        [j \in 1..Len(right) |->
            [pr_number |-> left[i].pr_number,
             time_created |-> left[i].time,
             time_merged |-> right[j].time]]])

\* pd.merge(left, right, on="pr_number", suffixes=("_created", "_merged")):
\* the inner join, one row per pair of a left and a right row of the same
\* pr_number, in the order of the left rows
MergeOnPrNumber(left, right) ==
    FlattenSeq([i \in 1..Len(left) |->
        LET match == SelectSeq(right, LAMBDA r : r.pr_number = left[i].pr_number)
        IN  [j \in 1..Len(match) |->
                [pr_number |-> left[i].pr_number,
                 time_created |-> left[i].time,
                 time_merged |-> match[j].time]]])

\* pr_times with the merge_time column
pr_times(df) ==
    LET pr_created == OfType(df, "pr_created")
        pr_merged == OfType(df, "pr_merged")
        t == MergeOnPrNumber(pr_created, pr_merged)
    IN  [i \in 1..Len(t) |->
            [pr_number |-> t[i].pr_number,
             time_created |-> t[i].time_created,
             time_merged |-> t[i].time_merged,
             merge_time |-> Hours(t[i].time_created, t[i].time_merged)]]

\* mutant: the 'lower' method, the sorted value below the virtual index
Percentile_Lower(s, q) ==
    LET v == SortSeq(s, LAMBDA a, b : a < b)
    IN  v[((Len(v) - 1) * q) \div 100 + 1]

\* np.percentile(s, q), linear interpolation: the value at the virtual index
\* (n - 1) * q / 100 of the sorted values
Percentile(s, q) ==
    LET v == SortSeq(s, LAMBDA a, b : a < b)
        n == Len(v)
        h == (n - 1) * q
        lo == h \div 100 + 1
        hi == IF lo < n THEN lo + 1 ELSE n
    IN  v[lo] + ((v[hi] - v[lo]) * (h % 100)) \div 100

NoneTriple ==
    [type |-> "tuple", median_time |-> NoneValue, pr_times |-> NoneValue,
     percentile_values |-> NoneValue]

\* df is always a DataFrame (line 18) and its instants are parseable; the
\* KeyError of repo_df["event_type"] on a frame that lacks the column is
\* caught by the except clause of lines 46-48
calculate_pmt(df) ==
    IF Len(df) = 0 THEN NoneTriple
    ELSE IF ~HasColumn(df, "event_type") THEN NoneTriple
    ELSE IF Len(pr_times(df)) = 0 THEN NoneTriple
    ELSE LET merge_time == [i \in 1..Len(pr_times(df)) |-> pr_times(df)[i].merge_time]
         IN  [type |-> "tuple",
              median_time |-> Float(Median(merge_time)),
              pr_times |-> DataFrame(pr_times(df)),
              percentile_values |->
                  NdArray(<<Float(Percentile(merge_time, 25)),
                            Float(Percentile(merge_time, 50)),
                            Float(Percentile(merge_time, 75))>>)]

(***************************************************************************)
(* review_turnaround/data.py                                               *)
(***************************************************************************)
ReviewTypes == {"review_approved", "review_changes_requested", "review_commented"}

\* the row indexes of a set I of rows in an order sort_values("time") can
\* leave them in: ascending time, rows of equal time in any order (the
\* default sort is not stable)
TimeSortedOrders(df, I) ==
    {s \in [1..Cardinality(I) -> I] :
        /\ \A j, k \in 1..Cardinality(I) : j # k => s[j] # s[k]
        /\ \A j, k \in 1..Cardinality(I) : j < k => df[s[j]].time <= df[s[k]].time}

\* the orders in which the review_requested rows can be iterated; none is
\* reached on a frame that lacks the event_type column
RequestOrders(df) ==
    IF ~HasColumn(df, "event_type") THEN {<<>>}
    ELSE TimeSortedOrders(df, {i \in 1..Len(df) : df[i].event_type = "review_requested"})

\* Series.unique(): the distinct values in order of first appearance
RECURSIVE Unique(_)
Unique(s) ==
    IF s = <<>> THEN <<>>
    ELSE <<Head(s)>> \o Unique(SelectSeq(Tail(s), LAMBDA x : x # Head(s)))

\* mutant: an event at the very time of the request answers it
ReviewActionsFor_NotStrict(df, i) ==
    {j \in 1..Len(df) :
        /\ df[j].pr_number = df[i].pr_number
        /\ df[j].time >= df[i].time
        /\ PandasEq(df[j].actor, df[i].target_user)
        /\ df[j].event_type \in ReviewTypes}

\* mutant: the actor compared with the reviewer by plain equality, under
\* which a missing actor equals a missing reviewer
ReviewActionsFor_NullMatch(df, i) ==
    {j \in 1..Len(df) :
        /\ df[j].pr_number = df[i].pr_number
        /\ df[j].time > df[i].time
        /\ df[j].actor = df[i].target_user
        /\ df[j].event_type \in ReviewTypes}

\* review_actions of lines 106-114: the rows of the PR that answer request i
ReviewActionsFor(df, i) ==
    {j \in 1..Len(df) :
        /\ df[j].pr_number = df[i].pr_number
        /\ df[j].time > df[i].time
        /\ PandasEq(df[j].actor, df[i].target_user)
        /\ df[j].event_type \in ReviewTypes}

\* mutant: no break, a sample for every request that has a review action
RECURSIVE RequestLoop_NoBreak(_, _)
RequestLoop_NoBreak(df, reqs) ==
    IF reqs = <<>> THEN <<>>
    ELSE IF Falsy(df[Head(reqs)].target_user) THEN RequestLoop_NoBreak(df, Tail(reqs))
    ELSE IF ReviewActionsFor(df, Head(reqs)) = {} THEN RequestLoop_NoBreak(df, Tail(reqs))
    ELSE <<Hours(df[Head(reqs)].time,
                 Min({df[j].time : j \in ReviewActionsFor(df, Head(reqs))}))>>
         \o RequestLoop_NoBreak(df, Tail(reqs))

\* the loop of lines 98-120 over the requests reqs of one PR: the sample of
\* the first request that has a review action, then break
RECURSIVE RequestLoop(_, _)
RequestLoop(df, reqs) ==
    IF reqs = <<>> THEN <<>>
    ELSE IF Falsy(df[Head(reqs)].target_user) THEN RequestLoop(df, Tail(reqs))
    ELSE IF ReviewActionsFor(df, Head(reqs)) = {} THEN RequestLoop(df, Tail(reqs))
    ELSE <<Hours(df[Head(reqs)].time,
                 Min({df[j].time : j \in ReviewActionsFor(df, Head(reqs))}))>>

\* mutant: the events of the PR left in frame order, the first review row of
\* the frame taken for the earliest
TurnaroundOfPR_Unsorted(df, p, ord) ==
    LET pr_events == {i \in 1..Len(df) : df[i].pr_number = p}
        pr_created_time ==
            Min({df[i].time : i \in {j \in pr_events : df[j].event_type = "pr_created"}})
        review_requests == SelectSeq(ord, LAMBDA i : df[i].pr_number = p)
        review_actions == {i \in pr_events : df[i].event_type \in ReviewTypes}
    IN  IF review_requests # <<>> THEN RequestLoop(df, review_requests)
        ELSE IF review_actions # {}
             THEN <<Hours(pr_created_time, df[Min(review_actions)].time)>>
             ELSE <<>>

\* mutant: a PR whose requests are all unanswered falls back to the rule of
\* the PRs without request
TurnaroundOfPR_Fallback(df, p, ord) ==
    LET pr_events == {i \in 1..Len(df) : df[i].pr_number = p}
        pr_created_time ==
            Min({df[i].time : i \in {j \in pr_events : df[j].event_type = "pr_created"}})
        review_requests == SelectSeq(ord, LAMBDA i : df[i].pr_number = p)
        review_actions == {i \in pr_events : df[i].event_type \in ReviewTypes}
    IN  IF RequestLoop(df, review_requests) # <<>> THEN RequestLoop(df, review_requests)
        ELSE IF review_actions # {}
             THEN <<Hours(pr_created_time, Min({df[i].time : i \in review_actions}))>>
             ELSE <<>>

\* the body of the loop of line 87 for one PR: the samples it appends
TurnaroundOfPR(df, p, ord) ==
    LET pr_events == {i \in 1..Len(df) : df[i].pr_number = p}
        pr_created_time ==
            Min({df[i].time : i \in {j \in pr_events : df[j].event_type = "pr_created"}})
        review_requests == SelectSeq(ord, LAMBDA i : df[i].pr_number = p)
        review_actions == {i \in pr_events : df[i].event_type \in ReviewTypes}
    IN  IF review_requests # <<>> THEN RequestLoop(df, review_requests)
        ELSE IF review_actions # {}
             THEN <<Hours(pr_created_time, Min({df[i].time : i \in review_actions}))>>
             ELSE <<>>

turnaround_times(df, ord) ==
    LET created == OfType(df, "pr_created")
        prs == Unique([i \in 1..Len(created) |-> created[i].pr_number])
    IN  FlattenSeq([k \in 1..Len(prs) |-> TurnaroundOfPR(df, prs[k], ord)])

\* mutant: a sample of exactly h hours is not within h hours
Within_Strict(t, h) ==
    Fraction(100 * Cardinality({i \in 1..Len(t) : t[i] < 4 * h}), Len(t))

\* (turnaround_times <= h).mean() * 100
Within(t, h) ==
    Fraction(100 * Cardinality({i \in 1..Len(t) : t[i] <= 4 * h}), Len(t))

\* dtype is the dtype of df["time"]: the subtraction of two str cells raises
\* and the except clause returns None; ord is the order of the requests
calculate_rtt_stats(df, dtype, ord) ==
    LET created == OfType(df, "pr_created")
        all_prs == Cardinality({created[i].pr_number : i \in 1..Len(created)})
        t == turnaround_times(df, ord)
    IN  IF Len(df) = 0 THEN NoneValue
        \* the KeyError of line 81 is caught by the except clause
        ELSE IF ~HasColumn(df, "event_type") THEN NoneValue
        ELSE IF dtype # "datetime64" /\ t # <<>> THEN NoneValue
        ELSE IF t = <<>> THEN NoneValue
        ELSE [type |-> "dict",
              median_hours |-> Float(Median(t)),
              total_prs |-> all_prs,
              reviewed_prs |-> Len(t),
              review_rate |-> Fraction(100 * Len(t), all_prs),
              within_1h |-> Within(t, 1),
              within_4h |-> Within(t, 4),
              within_24h |-> Within(t, 24)]

\* matched_prs of calculate_rtt_trends: the PRs that have a pr_created row
\* and a review_requested row, with the time of the first row of each kind
\* in row order and the title, which is never missing
trend_prs(df) ==
    LET pr_created == GroupbyTimeFirst(OfType(df, "pr_created"))
        review_requests == GroupbyTimeFirst(OfType(df, "review_requested"))
        title(p) ==
            df[Min({i \in 1..Len(df) :
                df[i].event_type = "pr_created" /\ df[i].pr_number = p})].pr_title
    IN  [p \in (DOMAIN pr_created) \cap (DOMAIN review_requests) |->
            [created_time |-> pr_created[p],
             pr_title |-> title(p),
             review_requested_time |-> review_requests[p],
             turnaround_hours |-> Hours(pr_created[p], review_requests[p])]]

\* the frame of turnaround trends, sorted by created_time (rows of equal
\* time in the order the sort gives this input), with the rolling median of
\* the last 7 rows; an empty frame when there is nothing to report and when
\* the except clause of lines 59-60 is taken
calculate_rtt_trends(df) ==
    IF Len(df) = 0 THEN DataFrame(<<>>)
    ELSE IF ~HasColumn(df, "event_type") THEN DataFrame(<<>>)
    ELSE IF DOMAIN trend_prs(df) = {} THEN DataFrame(<<>>)
    ELSE LET m == trend_prs(df)
             n == Cardinality(DOMAIN m)
             ord == CHOOSE s \in [1..n -> DOMAIN m] :
                        /\ \A j, k \in 1..n : j # k => s[j] # s[k]
                        /\ \A j, k \in 1..n :
                                j < k => m[s[j]].created_time <= m[s[k]].created_time
             window(k) ==
                [j \in 1..(k - Max({1, k - 6}) + 1) |->
                    m[ord[Max({1, k - 6}) + j - 1]].turnaround_hours]
         IN  DataFrame([k \in 1..n |->
                [pr_number |-> ord[k],
                 created_time |-> m[ord[k]].created_time,
                 pr_title |-> m[ord[k]].pr_title,
                 review_requested_time |-> m[ord[k]].review_requested_time,
                 turnaround_hours |-> m[ord[k]].turnaround_hours,
                 rolling_median |-> Float(Median(window(k)))]])

(***************************************************************************)
(* review_coverage/data.py                                                 *)
(***************************************************************************)
\* mutant: a review request counts as a review
calculate_review_ratio_stats_Requested(df) ==
    LET prs == {df[i].pr_number : i \in 1..Len(df)}
        reviewed ==
            {p \in prs : \E i \in 1..Len(df) :
                /\ df[i].pr_number = p
                /\ df[i].event_type \in
                        {"review_commented", "review_approved",
                         "review_changes_requested", "review_requested"}}
    IN  IF Len(df) = 0 THEN NoneValue
        ELSE [type |-> "dict",
              total_prs |-> Cardinality(prs),
              reviewed_prs |-> Cardinality(reviewed),
              unreviewed_prs |-> Cardinality(prs) - Cardinality(reviewed),
              review_percentage |-> Fraction(Cardinality(reviewed) * 100, Cardinality(prs))]

\* pr_summary: per pr_number, the list of its event types
pr_summary(df) ==
    [p \in {df[i].pr_number : i \in 1..Len(df)} |->
        [event_type |->
            LET rows == SelectSeq(df, LAMBDA r : r.pr_number = p)
            IN  [i \in 1..Len(rows) |-> rows[i].event_type]]]

calculate_review_ratio_stats(df) ==
    LET total_prs == Cardinality(DOMAIN pr_summary(df))
        reviewed_prs ==
            Cardinality({p \in DOMAIN pr_summary(df) :
                \E event \in {"review_commented", "review_approved",
                               "review_changes_requested"} :
                    \E k \in 1..Len(pr_summary(df)[p].event_type) :
                        pr_summary(df)[p].event_type[k] = event})
    IN  IF Len(df) = 0 THEN NoneValue
        \* the KeyError of the aggregation is caught by the except clause
        ELSE IF ~HasColumn(df, "event_type") THEN NoneValue
        ELSE [type |-> "dict",
              total_prs |-> total_prs,
              reviewed_prs |-> reviewed_prs,
              unreviewed_prs |-> total_prs - reviewed_prs,
              review_percentage |->
                  IF total_prs > 0 THEN Fraction(reviewed_prs * 100, total_prs)
                  ELSE Fraction(0, 1)]

(***************************************************************************)
(* Lists of event types.                                                    *)
(***************************************************************************)
\* e in events, for a list of event types
ListContains(events, e) == \E k \in 1..Len(events) : events[k] = e

ReviewActions == <<"review_commented", "review_changes_requested", "review_approved">>

\* any(event in events for event in [the three review actions])
AnyReviewAction(events) ==
    \E k \in 1..Len(ReviewActions) : ListContains(events, ReviewActions[k])

(***************************************************************************)
(* review_funnel/data.py and review_funnel/__init__.py                     *)
(***************************************************************************)
\* mutant: a PR with a review request counts as approved
get_review_funnel_data_Requested(df) ==
    LET pr_events == pr_summary(df)
        total_prs == Cardinality(DOMAIN pr_events)
        reviewed_prs ==
            Cardinality({p \in DOMAIN pr_events : AnyReviewAction(pr_events[p].event_type)})
        approved_prs ==
            Cardinality({p \in DOMAIN pr_events :
                ListContains(pr_events[p].event_type, "review_requested")})
    IN  IF Len(df) = 0 THEN NoneValue
        ELSE IF total_prs = 0 THEN NoneValue
        ELSE [type |-> "dict", total_prs |-> total_prs,
              reviewed_prs |-> reviewed_prs, approved_prs |-> approved_prs]

\* no try: the KeyError of the aggregation of a frame that lacks a column
\* reaches the caller
get_review_funnel_data(df) ==
    LET pr_events == pr_summary(df)
        total_prs == Cardinality(DOMAIN pr_events)
        reviewed_prs ==
            Cardinality({p \in DOMAIN pr_events : AnyReviewAction(pr_events[p].event_type)})
        approved_prs ==
            Cardinality({p \in DOMAIN pr_events :
                ListContains(pr_events[p].event_type, "review_approved")})
    IN  IF Len(df) = 0 THEN NoneValue
        ELSE IF ~HasColumn(df, "event_type") THEN Raise("KeyError")
        ELSE IF total_prs = 0 THEN NoneValue
        ELSE [type |-> "dict", total_prs |-> total_prs,
              reviewed_prs |-> reviewed_prs, approved_prs |-> approved_prs]

\* the hover texts of lines 31-35 divide approved by reviewed and reviewed by
\* total, as Python ints: a zero divisor raises
create_review_funnel_plot(funnel_data) ==
    IF funnel_data.total_prs = 0 THEN Raise("ZeroDivisionError")
    ELSE IF funnel_data.reviewed_prs = 0 THEN Raise("ZeroDivisionError")
    ELSE [type |-> "Figure",
          x |-> <<funnel_data.total_prs, funnel_data.reviewed_prs,
                  funnel_data.approved_prs>>]

\* render_template("components/charts/review_funnel/template.html",
\* review_data=review_data)
FunnelTemplate(review_data) == [type |-> "html", review_data |-> review_data]

\* render of review_funnel: every exception of the body, the one of
\* create_review_funnel_plot included, ends in the template without data
review_funnel_render(df) ==
    LET funnel_data == get_review_funnel_data(df)
    IN  IF funnel_data.type = "raise" THEN FunnelTemplate(NoneValue)
        ELSE IF funnel_data = NoneValue THEN FunnelTemplate(NoneValue)
        ELSE IF create_review_funnel_plot(funnel_data).type = "raise"
             THEN FunnelTemplate(NoneValue)
        ELSE FunnelTemplate(
                [type |-> "dict",
                 total_prs |-> funnel_data.total_prs,
                 reviewed_prs |-> funnel_data.reviewed_prs,
                 approved_prs |-> funnel_data.approved_prs,
                 review_rate |->
                    IF funnel_data.total_prs > 0
                    THEN Fraction(funnel_data.reviewed_prs * 100, funnel_data.total_prs)
                    ELSE Fraction(0, 1),
                 approval_rate |->
                    IF funnel_data.reviewed_prs > 0
                    THEN Fraction(funnel_data.approved_prs * 100, funnel_data.reviewed_prs)
                    ELSE Fraction(0, 1)])

(***************************************************************************)
(* contribution/data.py                                                    *)
(***************************************************************************)
\* df.drop_duplicates("pr_number"): the first row of every pr_number, in
\* row order
DropDuplicatesPrNumber(df) ==
    LET keep == {i \in 1..Len(df) : \A j \in 1..(i - 1) : df[j].pr_number # df[i].pr_number}
        idx == SortedSeqOfSet(keep)
    IN  [k \in 1..Len(idx) |-> df[idx[k]]]

\* round(count / total * 100, 1) of Python, held as a number of tenths
RoundedPercentage(count, total) == Decimal1(RoundHalfEven(1000 * count, total))

\* mutant: core_prs counted over all the PRs, those of bots included
get_contribution_stats_CoreOfAll(df) ==
    LET pr_data == DropDuplicatesPrNumber(OfType(df, "pr_created"))
        total_prs == Len(pr_data)
        bot_prs == Len(SelectSeq(pr_data, LAMBDA r : r.is_bot))
        non_bot_data == SelectSeq(pr_data, LAMBDA r : ~r.is_bot)
        core_prs == Len(SelectSeq(pr_data, LAMBDA r : r.is_core_team))
        community_prs == Len(SelectSeq(non_bot_data, LAMBDA r : ~r.is_core_team))
    IN  IF Len(df) = 0 THEN NoneValue
        ELSE IF total_prs = 0 THEN NoneValue
        ELSE [type |-> "dict",
              total_prs |-> total_prs,
              core_prs |-> core_prs,
              community_prs |-> community_prs,
              bot_prs |-> bot_prs,
              core_percentage |-> RoundedPercentage(core_prs, total_prs),
              community_percentage |-> RoundedPercentage(community_prs, total_prs),
              bot_percentage |-> RoundedPercentage(bot_prs, total_prs)]

\* no try: the KeyError of repo_df["event_type"] on a frame that lacks the
\* column reaches the caller
get_contribution_stats(df) ==
    LET pr_data == DropDuplicatesPrNumber(OfType(df, "pr_created"))
        total_prs == Len(pr_data)
        bot_prs == Len(SelectSeq(pr_data, LAMBDA r : r.is_bot))
        non_bot_data == SelectSeq(pr_data, LAMBDA r : ~r.is_bot)
        core_prs == Len(SelectSeq(non_bot_data, LAMBDA r : r.is_core_team))
        community_prs == Len(SelectSeq(non_bot_data, LAMBDA r : ~r.is_core_team))
    IN  IF Len(df) = 0 THEN NoneValue
        ELSE IF ~HasColumn(df, "event_type") THEN Raise("KeyError")
        ELSE IF total_prs = 0 THEN NoneValue
        ELSE [type |-> "dict",
              total_prs |-> total_prs,
              core_prs |-> core_prs,
              community_prs |-> community_prs,
              bot_prs |-> bot_prs,
              core_percentage |-> RoundedPercentage(core_prs, total_prs),
              community_percentage |-> RoundedPercentage(community_prs, total_prs),
              bot_percentage |-> RoundedPercentage(bot_prs, total_prs)]

(***************************************************************************)
(* bot_analysis/data.py                                                    *)
(***************************************************************************)
\* bot_breakdown: one record per bot actor with its number of PRs, by
\* descending count; groupby leaves out a missing actor, and the order of
\* actors of equal count is the one the sort gives this input
BotBreakdown(pr_authors) ==
    LET bots == {pr_authors[i].actor : i \in {j \in 1..Len(pr_authors) :
                    pr_authors[j].is_bot /\ pr_authors[j].actor # NaN}}
        count(a) == Cardinality({i \in 1..Len(pr_authors) :
                        pr_authors[i].actor = a /\ pr_authors[i].is_bot})
    IN  CHOOSE s \in [1..Cardinality(bots) -> bots] :
            /\ \A j, k \in 1..Cardinality(bots) : j # k => s[j] # s[k]
            /\ \A j, k \in 1..Cardinality(bots) : j < k => count(s[j]) >= count(s[k])

\* no try: the KeyError of repo_df["event_type"] on a frame that lacks the
\* column reaches the caller
analyze_bot_activity(df) ==
    LET pr_data == DropDuplicatesPrNumber(OfType(df, "pr_created"))
        pr_authors ==
            LET rows == SelectSeq(pr_data, LAMBDA r : ~Falsy(r.actor))
            IN  [i \in 1..Len(rows) |->
                    [actor |-> rows[i].actor, pr_number |-> rows[i].pr_number,
                     is_bot |-> rows[i].is_bot]]
        total_prs == Len(pr_authors)
        bot_prs == Len(SelectSeq(pr_authors, LAMBDA r : r.is_bot))
        human_prs == Len(SelectSeq(pr_authors, LAMBDA r : ~r.is_bot))
        bots == BotBreakdown(pr_authors)
    IN  IF Len(df) = 0 THEN NoneValue
        ELSE IF ~HasColumn(df, "event_type") THEN Raise("KeyError")
        ELSE IF Len(pr_data) = 0 THEN NoneValue
        ELSE IF Len(pr_authors) = 0 THEN NoneValue
        ELSE [type |-> "dict",
              total_prs |-> total_prs,
              bot_prs |-> bot_prs,
              human_prs |-> human_prs,
              bot_count |-> bot_prs,
              human_count |-> human_prs,
              bot_percentage |-> RoundedPercentage(bot_prs, total_prs),
              human_percentage |-> RoundedPercentage(human_prs, total_prs),
              bot_breakdown |->
                  [k \in 1..Len(bots) |->
                      [actor |-> bots[k], is_bot |-> TRUE,
                       pr_number |->
                          Cardinality({i \in 1..Len(pr_authors) :
                              pr_authors[i].actor = bots[k] /\ pr_authors[i].is_bot})]]]

(***************************************************************************)
(* workflow/data.py                                                        *)
(***************************************************************************)
Link(source, target, value) == [source |-> source, target |-> target, value |-> value]

\* mutant: a PR with a review action counts as a direct review even when a
\* review was requested
DirectReviews_Any(pr_events) ==
    Cardinality({p \in DOMAIN pr_events : AnyReviewAction(pr_events[p].event_type)})

\* direct_reviews of lines 40-44
DirectReviews(pr_events) ==
    Cardinality({p \in DOMAIN pr_events :
        /\ AnyReviewAction(pr_events[p].event_type)
        /\ ~ListContains(pr_events[p].event_type, "review_requested")})

\* mutant: the links are returned as they were appended
PositiveLinks_KeepAll(links) == links

\* line 129: [link for link in links if link["value"] > 0]
PositiveLinks(links) == SelectSeq(links, LAMBDA link : link.value > 0)

\* <<link>> if cond, no link otherwise: an "if cond: links.append(link)"
LinkIf(cond, link) == IF cond THEN <<link>> ELSE <<>>

\* review_requested of line 39
review_requested_prs(pr_events) ==
    Cardinality({p \in DOMAIN pr_events :
        ListContains(pr_events[p].event_type, "review_requested")})

\* approved_prs of line 62
approved_prs(pr_events) ==
    Cardinality({p \in DOMAIN pr_events :
        ListContains(pr_events[p].event_type, "review_approved")})

\* mutant: a PR with a comment counts as commented even when it is approved
commented_prs_Any(pr_events) ==
    Cardinality({p \in DOMAIN pr_events :
        ListContains(pr_events[p].event_type, "review_commented")})

\* commented_prs of lines 63-65
commented_prs(pr_events) ==
    Cardinality({p \in DOMAIN pr_events :
        /\ ListContains(pr_events[p].event_type, "review_commented")
        /\ ~ListContains(pr_events[p].event_type, "review_approved")})

\* approved_from_requested of lines 70-72
approved_from_requested(pr_events) ==
    Cardinality({p \in DOMAIN pr_events :
        /\ ListContains(pr_events[p].event_type, "review_approved")
        /\ ListContains(pr_events[p].event_type, "review_requested")})

\* commented_from_requested of lines 73-76
commented_from_requested(pr_events) ==
    Cardinality({p \in DOMAIN pr_events :
        /\ ListContains(pr_events[p].event_type, "review_commented")
        /\ ListContains(pr_events[p].event_type, "review_requested")
        /\ ~ListContains(pr_events[p].event_type, "review_approved")})

\* mutant: the requested PRs without outcome are left out of the graph
remaining_requested_Zero(pr_events) == 0

\* remaining_requested of line 85
remaining_requested(pr_events) ==
    review_requested_prs(pr_events) - approved_from_requested(pr_events)
        - commented_from_requested(pr_events)

\* mutant: the link from Approved to Merged carries what stage 2 sent to
\* Approved on the requested path, its remainder included, and on the
\* direct path
approved_to_merged_PerPath(pr_events) ==
    approved_prs(pr_events) + remaining_requested(pr_events)

\* approved_to_merged of line 114
approved_to_merged(pr_events) == approved_prs(pr_events)

\* the links appended by lines 79-87
RequestedOutcomeLinks(pr_events) ==
    LinkIf(approved_from_requested(pr_events) > 0,
           Link("Review Requested", "Approved", approved_from_requested(pr_events)))
    \o LinkIf(commented_from_requested(pr_events) > 0,
           Link("Review Requested", "Commented", commented_from_requested(pr_events)))
    \o LinkIf(remaining_requested(pr_events) > 0,
           Link("Review Requested", "Approved", remaining_requested(pr_events)))

\* the links of lines 50-126, in the order they are appended
SankeyLinks(pr_events) ==
    LET prs == DOMAIN pr_events
        has(p, e) == ListContains(pr_events[p].event_type, e)
        total_prs == Cardinality(prs)
        review_requested == review_requested_prs(pr_events)
        direct_reviews == DirectReviews(pr_events)
        no_review == total_prs - review_requested - direct_reviews
        approved_from_direct ==
            Cardinality({p \in prs :
                has(p, "review_approved") /\ ~has(p, "review_requested")})
        commented_from_direct ==
            Cardinality({p \in prs :
                /\ has(p, "review_commented") /\ ~has(p, "review_requested")
                /\ ~has(p, "review_approved")})
        remaining_direct == direct_reviews - approved_from_direct - commented_from_direct
        comments_to_merged == commented_prs(pr_events)
    IN  <<Link("PRs Created", "Review Requested", review_requested),
          Link("PRs Created", "No Review", no_review),
          Link("PRs Created", "Direct Review", direct_reviews)>>
        \o (IF review_requested > 0 THEN RequestedOutcomeLinks(pr_events) ELSE <<>>)
        \o (IF direct_reviews > 0
            THEN LinkIf(approved_from_direct > 0,
                        Link("Direct Review", "Approved", approved_from_direct))
                 \o LinkIf(commented_from_direct > 0,
                        Link("Direct Review", "Commented", commented_from_direct))
                 \o LinkIf(remaining_direct > 0,
                        Link("Direct Review", "Commented", remaining_direct))
            ELSE <<>>)
        \o LinkIf(approved_to_merged(pr_events) > 0,
                  Link("Approved", "Merged", approved_to_merged(pr_events)))
        \o LinkIf(comments_to_merged > 0, Link("Commented", "Merged", comments_to_merged))
        \o LinkIf(no_review > 0, Link("No Review", "Merged", no_review))

SankeyNodes ==
    <<"PRs Created", "Review Requested", "No Review", "Direct Review",
      "Approved", "Commented", "Merged">>

\* no try: the KeyError of the aggregation of a frame that lacks a column
\* reaches the caller
prepare_sankey_data(df) ==
    IF Len(df) = 0 THEN NoneValue
    ELSE IF ~HasColumn(df, "event_type") THEN Raise("KeyError")
    ELSE [type |-> "dict",
          nodes |-> SankeyNodes,
          links |-> PositiveLinks(SankeyLinks(pr_summary(df)))]

(***************************************************************************)
(* chart_renderer.py                                                       *)
(***************************************************************************)
\* render_func(data) of a discovered chart: the HTML of the chart for the
\* data, or an exception
CallRender(module, data) ==
    IF module.render = "raises" THEN Raise("Exception")
    ELSE [type |-> "html", chart |-> module.name, rows |-> Len(data)]

\* mutant: the try statement around the whole loop, which ends at the first
\* chart that fails
RECURSIVE RenderLoop_Abort(_, _, _)
RenderLoop_Abort(modules, data, results) ==
    IF modules = <<>> THEN results
    ELSE LET chart_output == CallRender(Head(modules), data)
         IN  IF chart_output.type = "raise"
             THEN Append(results, [name |-> Head(modules).name, html |-> NoneValue])
             ELSE RenderLoop_Abort(Tail(modules), data,
                    Append(results, [name |-> Head(modules).name, html |-> chart_output]))

\* the loop of lines 60-66 over the charts still to render
RECURSIVE RenderLoop(_, _, _)
RenderLoop(modules, data, results) ==
    IF modules = <<>> THEN results
    ELSE LET chart_output == CallRender(Head(modules), data)
         IN  IF chart_output.type = "raise"
             THEN RenderLoop(Tail(modules), data,
                    Append(results, [name |-> Head(modules).name, html |-> NoneValue]))
             ELSE RenderLoop(Tail(modules), data,
                    Append(results, [name |-> Head(modules).name, html |-> chart_output]))

render_charts(modules, data) ==
    [type |-> "list", items |-> RenderLoop(modules, data, <<>>)]

(***************************************************************************)
(* fetcher/github_utils.py                                                 *)
(***************************************************************************)
\* str.lower() on the values of the enum PullRequestReviewState
Lower ==
    [APPROVED |-> "approved", CHANGES_REQUESTED |-> "changes_requested",
     COMMENTED |-> "commented", DISMISSED |-> "dismissed", PENDING |-> "pending"]

\* the login of a user object, None when GitHub returns null for the user
Login(user) == IF user = None THEN None ELSE user

\* the events that the loop body of lines 264-346 appends for one timeline
\* item; of each event, the columns that the metrics read
TimelineItemEvents(number, item) ==
    LET base_event(t, e, a, u) ==
            [time |-> t, pr_number |-> number, event_type |-> e, actor |-> a,
             target_user |-> u]
    IN  IF "typename" \notin DOMAIN item THEN <<>>
        ELSE IF item.typename = "PullRequestCommit"
             THEN <<base_event(item.createdAt, "commit_pushed", Login(item.actor), None)>>
        ELSE IF item.typename = "ReviewRequestedEvent"
             THEN <<base_event(item.createdAt, "review_requested", Login(item.actor),
                               Login(item.requestedReviewer))>>
        ELSE IF item.typename = "PullRequestReview"
             THEN <<base_event(item.createdAt, "review_" \o Lower[item.state],
                               Login(item.actor), None)>>
        ELSE IF item.typename = "MergedEvent"
             THEN <<base_event(item.createdAt, "pr_merged", Login(item.actor), None)>>
        ELSE IF item.typename = "IssueComment"
             THEN <<base_event(item.createdAt, "comment_added", Login(item.actor), None)>>
        ELSE <<>>

\* the pr_created event of lines 240-259, then the events of the timeline
\* items in their order
process_timeline_events(pr_data) ==
    <<[time |-> pr_data.createdAt, pr_number |-> pr_data.number,
       event_type |-> "pr_created", actor |-> Login(pr_data.author),
       target_user |-> None]>>
    \o FlattenSeq([k \in 1..Len(pr_data.timelineItems) |->
            TimelineItemEvents(pr_data.number, pr_data.timelineItems[k])])

(***************************************************************************)
(* fetcher/store.py and fetcher/fetch.py.  The files of the repository     *)
(* directory: pull_requests.csv as the list of its PR numbers, the PRs     *)
(* that have a non-empty pr_<n>/events.csv, and the PRs whose events are   *)
(* in all_events.csv.  A file that does not exist is the empty list or     *)
(* set.                                                                    *)
(***************************************************************************)
EmptyDataDir == [pull_requests_csv |-> <<>>, events_csv |-> {}, all_events_csv |-> {}]

\* max_prs=None
NoLimit == -1

Range(s) == {s[i] : i \in 1..Len(s)}

\* get_existing_prs_map(owner, name): the keys of the map
get_existing_prs_map(d) == Range(d.pull_requests_csv)

\* has_pr_events(owner, name, pr_number)
has_pr_events(d_events, pr_number) == pr_number \in d_events

\* fetch_pull_request_events for each PR of prs in turn, from the set events
\* of the PRs that have events: a PR that has events is skipped, a timeline
\* that GitHub does not return saves nothing, a failed request raises and
\* ends the loop
RECURSIVE FetchEventsLoop(_, _, _)
FetchEventsLoop(prs, events, timeline) ==
    IF prs = <<>> THEN [events |-> events, raised |-> FALSE]
    ELSE IF has_pr_events(events, Head(prs)) THEN FetchEventsLoop(Tail(prs), events, timeline)
    ELSE IF timeline[Head(prs)] = "raises" THEN [events |-> events, raised |-> TRUE]
    ELSE IF timeline[Head(prs)] = "empty" THEN FetchEventsLoop(Tail(prs), events, timeline)
    ELSE FetchEventsLoop(Tail(prs), events \cup {Head(prs)}, timeline)

\* get_pull_requests(owner, name, max_prs): the first max_prs of the list
get_pull_requests(merged, limit) ==
    IF limit = NoLimit \/ limit = 0 THEN merged
    ELSE SubSeq(merged, 1, IF limit < Len(merged) THEN limit ELSE Len(merged))

\* consolidate_all_events: all_events.csv is rewritten with the events of
\* the PRs listed in pull_requests.csv, unless there is none
consolidate_all_events(d) ==
    LET all_events == Range(d.pull_requests_csv) \cap d.events_csv
    IN  IF all_events # {} THEN [d EXCEPT !.all_events_csv = all_events] ELSE d

\* fetch_pull_requests(owner, name, max_prs=limit) on the directory d, with
\* github the answers of GitHub: the merged PRs, or a failed request, and
\* for each PR what the request of its timeline gives.  The result is the
\* directory after the call and what the call returned.
fetch_pull_requests(d, limit, github) ==
    LET existing_prs == get_existing_prs_map(d)
        existing_prs_with_events ==
            Cardinality({p \in existing_prs : has_pr_events(d.events_csv, p)})
        remaining_prs_to_fetch ==
            IF limit = NoLimit THEN NoLimit
            ELSE IF limit - existing_prs_with_events > 0
                 THEN limit - existing_prs_with_events ELSE 0
        pull_requests_data == get_pull_requests(github.merged, remaining_prs_to_fetch)
        new_pull_requests == SelectSeq(pull_requests_data, LAMBDA p : p \notin existing_prs)
        \* write_csv opens pull_requests.csv in mode "w"
        saved == IF new_pull_requests # <<>>
                 THEN [d EXCEPT !.pull_requests_csv = new_pull_requests] ELSE d
        new_events == FetchEventsLoop(new_pull_requests, d.events_csv, github.timeline)
        missing_events_prs ==
            SelectSeq(d.pull_requests_csv,
                      LAMBDA p : ~has_pr_events(new_events.events, p))
        missing_events ==
            FetchEventsLoop(missing_events_prs, new_events.events, github.timeline)
    IN  IF limit # NoLimit /\ remaining_prs_to_fetch = 0
        THEN [data_dir |-> d,
              ret |-> [type |-> "dict", status |-> "success", prs_processed |-> 0,
                       new_prs |-> 0, message |-> "No new PRs needed"]]
        ELSE IF github.merged_raises
        THEN [data_dir |-> d, ret |-> Raise("Exception")]
        ELSE IF new_events.raised
        THEN [data_dir |-> [saved EXCEPT !.events_csv = new_events.events],
              ret |-> Raise("Exception")]
        ELSE IF missing_events.raised
        THEN [data_dir |-> [saved EXCEPT !.events_csv = missing_events.events],
              ret |-> Raise("Exception")]
        ELSE [data_dir |->
                  consolidate_all_events([saved EXCEPT !.events_csv = missing_events.events]),
              ret |-> [type |-> "dict", status |-> "success",
                       prs_processed |-> Len(new_pull_requests),
                       new_prs |-> Len(new_pull_requests)]]

(***************************************************************************)
(* Actions: one per call of a metric function on the caller's frame.       *)
(***************************************************************************)
GetPrSizeCategory ==
    /\ call' = "get_pr_size_category"
    /\ ret' = Str(get_pr_size_category(total_lines_changed))
    /\ UNCHANGED <<repo_df, time_dtype, total_lines_changed, chart_modules, data_dir, max_prs>>

CalculatePat ==
    /\ call' = "calculate_pat"
    /\ ret' = calculate_pat(repo_df)
    \* line 14 assigns the converted column to the caller's frame
    /\ time_dtype' = IF Len(repo_df) = 0 THEN time_dtype ELSE "datetime64"
    /\ UNCHANGED <<repo_df, total_lines_changed, chart_modules, data_dir, max_prs>>

GetApprovalTimeData ==
    /\ call' = "get_approval_time_data"
    /\ ret' = get_approval_time_data(repo_df)
    \* line 234 calls calculate_pat, which converts the caller's time column
    /\ time_dtype' = IF Len(repo_df) = 0 THEN time_dtype ELSE "datetime64"
    /\ UNCHANGED <<repo_df, total_lines_changed, chart_modules, data_dir, max_prs>>

\* mutant: the durations are computed on the column as it was given, which
\* fails on strings, and the column is converted afterwards
CalculatePmt_ConvertLast ==
    /\ call' = "calculate_pmt"
    /\ ret' = IF time_dtype = "object" THEN NoneTriple ELSE calculate_pmt(repo_df)
    /\ time_dtype' = IF Len(repo_df) = 0 THEN time_dtype ELSE "datetime64"
    /\ UNCHANGED <<repo_df, total_lines_changed, chart_modules, data_dir, max_prs>>

CalculatePmt ==
    /\ call' = "calculate_pmt"
    /\ ret' = calculate_pmt(repo_df)
    \* line 25 assigns the converted column to the caller's frame
    /\ time_dtype' = IF Len(repo_df) = 0 THEN time_dtype ELSE "datetime64"
    /\ UNCHANGED <<repo_df, total_lines_changed, chart_modules, data_dir, max_prs>>

CalculateRttStats ==
    /\ call' = "calculate_rtt_stats"
    /\ \E ord \in RequestOrders(repo_df) :
            ret' = calculate_rtt_stats(repo_df, time_dtype, ord)
    /\ UNCHANGED <<repo_df, time_dtype, total_lines_changed, chart_modules, data_dir, max_prs>>

CalculateReviewRatioStats ==
    /\ call' = "calculate_review_ratio_stats"
    /\ ret' = calculate_review_ratio_stats(repo_df)
    /\ UNCHANGED <<repo_df, time_dtype, total_lines_changed, chart_modules, data_dir, max_prs>>

GetReviewFunnelData ==
    /\ call' = "get_review_funnel_data"
    /\ ret' = get_review_funnel_data(repo_df)
    /\ UNCHANGED <<repo_df, time_dtype, total_lines_changed, chart_modules, data_dir, max_prs>>

ReviewFunnelRender ==
    /\ call' = "review_funnel.render"
    /\ ret' = review_funnel_render(repo_df)
    /\ UNCHANGED <<repo_df, time_dtype, total_lines_changed, chart_modules, data_dir, max_prs>>

GetContributionStats ==
    /\ call' = "get_contribution_stats"
    /\ ret' = get_contribution_stats(repo_df)
    /\ UNCHANGED <<repo_df, time_dtype, total_lines_changed, chart_modules, data_dir, max_prs>>

AnalyzeBotActivity ==
    /\ call' = "analyze_bot_activity"
    /\ ret' = analyze_bot_activity(repo_df)
    /\ UNCHANGED <<repo_df, time_dtype, total_lines_changed, chart_modules, data_dir, max_prs>>

PrepareSankeyData ==
    /\ call' = "prepare_sankey_data"
    /\ ret' = prepare_sankey_data(repo_df)
    /\ UNCHANGED <<repo_df, time_dtype, total_lines_changed, chart_modules, data_dir, max_prs>>

CalculatePatBySize ==
    /\ call' = "calculate_pat_by_size"
    /\ ret' = calculate_pat_by_size(repo_df)
    \* line 169 assigns the converted column to the caller's frame
    /\ time_dtype' = IF Len(repo_df) = 0 THEN time_dtype ELSE "datetime64"
    /\ UNCHANGED <<repo_df, total_lines_changed, chart_modules, data_dir, max_prs>>

CalculateRttTrends ==
    /\ call' = "calculate_rtt_trends"
    /\ ret' = calculate_rtt_trends(repo_df)
    \* line 19 assigns the converted column to the caller's frame
    /\ time_dtype' = IF Len(repo_df) = 0 THEN time_dtype ELSE "datetime64"
    /\ UNCHANGED <<repo_df, total_lines_changed, chart_modules, data_dir, max_prs>>

RenderCharts ==
    /\ call' = "render_charts"
    /\ ret' = render_charts(chart_modules, repo_df)
    /\ UNCHANGED <<repo_df, time_dtype, total_lines_changed, chart_modules, data_dir, max_prs>>

(***************************************************************************)
(* Event frames.                                                           *)
(***************************************************************************)
\* (lines_added, lines_deleted) of each PR, the same on every row of the PR:
\* every PR has 9 lines changed (XS), or PR 1 has 9 and the others 10 (S)
LineStats ==
    {[p \in PRNumbers |-> <<4, 5>>],
     [p \in PRNumbers |-> IF p = 1 THEN <<4, 5>> ELSE <<5, 5>>]}

Event(t, p, e, a, u, ls) ==
    [time |-> t, pr_number |-> p, event_type |-> e, actor |-> a,
     target_user |-> u, lines_added |-> ls[1], lines_deleted |-> ls[2]]

\* frames of at most n rows drawn from the row set E
FramesUpTo(n, E) ==
    UNION {[1..k -> E] : k \in 0..n}

Frames(E) == FramesUpTo(MaxRows, E)

\* the frame f with the line statistics ls of each row's PR
WithLines(f, ls) ==
    [i \in 1..Len(f) |->
        [f[i] EXCEPT !.lines_added = ls[f[i].pr_number][1],
                     !.lines_deleted = ls[f[i].pr_number][2]]]

PatEvents ==
    {Event(t, p, e, "alice", NaN, <<0, 0>>) :
        t \in 0..MaxTime, p \in PRNumbers,
        e \in {"pr_created", "review_requested", "review_approved"}}

PmtEvents ==
    {Event(t, p, e, "alice", NaN, <<4, 5>>) :
        t \in 0..MaxTime, p \in PRNumbers, e \in {"pr_created", "pr_merged"}}

Reviewers == {"bob", "carol"}

Other(u) == CHOOSE v \in Reviewers : v # u

RttInstants == {0, 1, 2}

\* the timeline items of PR 1: a review requested from one reviewer by the
\* other, and reviews by either
RttItems ==
    {Event(t, 1, "review_requested", Other(u), u, <<4, 5>>) :
        t \in RttInstants, u \in Reviewers}
    \cup
    {Event(t, 1, x[1], x[2], NaN, <<4, 5>>) :
        t \in RttInstants,
        x \in {<<"review_approved", "bob">>, <<"review_approved", "carol">>,
               <<"review_changes_requested", "bob">>, <<"review_commented", "carol">>}}

\* the events of one PR as process_timeline_events lists them: pr_created,
\* then the timeline items
RttFrames ==
    {<<Event(t, 1, "pr_created", "alice", NaN, <<4, 5>>)>> \o f :
        t \in {0, 1}, f \in Frames(RttItems)}

\* instants on both sides of the 1 h, 4 h and 24 h thresholds
ReviewInstants == {1, 4, 24, 25}

\* PRs created at 0 and approved by bob at one of ReviewInstants
StatEvents ==
    {Event(0, p, "pr_created", "alice", NaN, <<4, 5>>) : p \in PRNumbers}
    \cup
    {Event(t, p, "review_approved", "bob", NaN, <<4, 5>>) :
        t \in ReviewInstants, p \in PRNumbers}

\* a user that GitHub no longer knows: None in the events as fetched, NaN
\* once they are read back from the CSV file
NullUsers == {NaN, None}

\* on PR 1: requests whose requested reviewer is bob or missing, and
\* approvals whose author is bob or missing
NullItems ==
    {Event(t, 1, "review_requested", "alice", u, <<4, 5>>) :
        t \in {0, 1}, u \in NullUsers \cup {"bob"}}
    \cup
    {Event(t, 1, "review_approved", a, NaN, <<4, 5>>) :
        t \in {1, 2}, a \in NullUsers \cup {"bob"}}

\* PR 1 with a request at 0 whose requested reviewer is missing, PR 2
\* approved by bob one hour after its creation, then more events of PR 1
NullTargetFrames ==
    {<<Event(0, 1, "pr_created", "alice", NaN, <<4, 5>>),
       Event(0, 1, "review_requested", "alice", u, <<4, 5>>),
       Event(0, 2, "pr_created", "alice", NaN, <<4, 5>>),
       Event(1, 2, "review_approved", "bob", NaN, <<4, 5>>)>> \o f :
        u \in NullUsers, f \in FramesUpTo(MaxNullRows, NullItems)}

CoveragePRs == {1, 2, 3}

CoverageEvents ==
    {Event(0, p, e, "alice", NaN, <<4, 5>>) :
        p \in CoveragePRs,
        e \in {"pr_created", "review_requested", "review_commented",
               "review_approved", "review_changes_requested"}}

\* an event row with the is_bot and is_core_team columns
AuthoredEvent(t, p, e, a, bot, core) ==
    [time |-> t, pr_number |-> p, event_type |-> e, actor |-> a,
     target_user |-> NaN, lines_added |-> 4, lines_deleted |-> 5,
     is_bot |-> bot, is_core_team |-> core]

\* pr_created rows of every kind of author, and an approval of each PR
ContributionEvents ==
    {AuthoredEvent(0, p, "pr_created", IF bot THEN "dependabot[bot]" ELSE "alice",
                   bot, core) :
        p \in CoveragePRs, bot \in BOOLEAN, core \in BOOLEAN}
    \cup
    {AuthoredEvent(1, p, "review_approved", "bob", FALSE, TRUE) : p \in CoveragePRs}

\* a row with every column the metric functions read
FullEvent(t, p, e, a, u, bot) ==
    [time |-> t, pr_number |-> p, event_type |-> e, actor |-> a,
     target_user |-> u, lines_added |-> 4, lines_deleted |-> 5,
     is_bot |-> bot, is_core_team |-> ~bot, pr_title |-> "title"]

\* PR 1 opened by a person, with a review requested from bob at 0, approved
\* by bob at 1 and merged at 2; PR 2 opened by a bot and approved by bob at 1
EngineEvents ==
    {FullEvent(0, 1, "pr_created", "alice", NaN, FALSE),
     FullEvent(0, 2, "pr_created", "dependabot[bot]", NaN, TRUE),
     FullEvent(0, 1, "review_requested", "alice", "bob", FALSE),
     FullEvent(2, 1, "pr_merged", "alice", NaN, FALSE)}
    \cup
    {FullEvent(1, p, "review_approved", "bob", NaN, FALSE) : p \in PRNumbers}

\* the row r of a frame that has no column c
WithoutColumn(r, c) == [f \in (DOMAIN r) \ {c} |-> r[f]]

\* the frames of a CSV file written without the event_type column
MalformedFrames ==
    {[i \in 1..Len(f) |-> WithoutColumn(f[i], "event_type")] :
        f \in FramesUpTo(MaxEngineRows, EngineEvents)}

ChartNames == {"approval_time", "contribution", "review_funnel", "pr_sankey"}

\* what get_chart_modules can return: charts of distinct names in the order
\* of the directory listing, each with a render that returns or raises
ChartModules ==
    UNION {{m \in [1..n -> [name : ChartNames, render : {"returns", "raises"}]] :
                \A j, k \in 1..n : j # k => m[j].name # m[k].name} :
           n \in 0..MaxCharts}

\* the merged pull requests of the repository on GitHub
FetchPRs == {1, 2, 3}

MaxPrsValues == {NoLimit} \cup 0..MaxPrsLimit

\* lists of distinct PRs: what the query of the merged pull requests can
\* return, in the order of their last update
MergedLists ==
    UNION {{m \in [1..n -> FetchPRs] : \A j, k \in 1..n : j # k => m[j] # m[k]} :
           n \in 0..Cardinality(FetchPRs)}

\* what GitHub answers during one run: the list of the merged PRs unless
\* the request fails, and for the timeline of each PR the data, nothing,
\* or a failed request
GitHubAnswers ==
    [merged : MergedLists, merged_raises : {FALSE},
     timeline : [FetchPRs -> {"events", "empty", "raises"}]]
    \cup
    {[merged |-> <<>>, merged_raises |-> TRUE, timeline |-> [p \in FetchPRs |-> "raises"]]}

\* the values of PullRequestReview.state
ReviewStates == {"APPROVED", "CHANGES_REQUESTED", "COMMENTED", "DISMISSED", "PENDING"}

\* the nodes of timelineItems: the five types that the query selects fields
\* of, a node of another type, which has its __typename only, and a node
\* without __typename
TimelineItems ==
    {[typename |-> t, createdAt |-> 1, actor |-> "bob", requestedReviewer |-> None,
      state |-> "COMMENTED"] :
        t \in {"PullRequestCommit", "MergedEvent", "IssueComment", "ClosedEvent"}}
    \cup
    {[typename |-> "ReviewRequestedEvent", createdAt |-> 1, actor |-> "alice",
      requestedReviewer |-> u, state |-> "COMMENTED"] : u \in {None, "bob"}}
    \cup
    {[typename |-> "PullRequestReview", createdAt |-> 1, actor |-> "bob",
      requestedReviewer |-> None, state |-> st] : st \in ReviewStates}
    \cup
    {[createdAt |-> 1]}

\* the pullRequest object that github_graphql_get_pull_request_events returns
PullRequestData ==
    [number : {1}, createdAt : {0}, author : {None, "alice"},
     timelineItems : FramesUpTo(MaxTimelineItems, TimelineItems)]

(***************************************************************************)
(* Actions of the fetcher.                                                 *)
(***************************************************************************)
\* one run of the fetcher on the repository directory, against what GitHub
\* answers at that time
FetchPullRequests ==
    \E limit \in MaxPrsValues, github \in GitHubAnswers :
        /\ call' = "fetch_pull_requests"
        /\ max_prs' = limit
        /\ data_dir' = fetch_pull_requests(data_dir, limit, github).data_dir
        /\ ret' = fetch_pull_requests(data_dir, limit, github).ret
        /\ UNCHANGED <<repo_df, time_dtype, total_lines_changed, chart_modules>>

ProcessTimelineEvents ==
    \E pr_data \in PullRequestData :
        /\ call' = "process_timeline_events"
        /\ ret' = [type |-> "list", items |-> process_timeline_events(pr_data)]
        /\ UNCHANGED <<repo_df, time_dtype, total_lines_changed, chart_modules,
                       data_dir, max_prs>>

(***************************************************************************)
(* Specifications.                                                       *)
(***************************************************************************)
InitSize ==
    /\ total_lines_changed \in 0..MaxLines
    /\ repo_df = <<>>
    /\ time_dtype = "datetime64"
    /\ chart_modules = <<>>
    /\ data_dir = EmptyDataDir
    /\ max_prs = NoLimit
    /\ call = "none"
    /\ ret = NoneValue

NextSize == GetPrSizeCategory

SpecSize == InitSize /\ [][NextSize]_vars

\* approval time: the frame is the one load() returns, time parsed
InitPat ==
    /\ \E f \in Frames(PatEvents) : \E ls \in LineStats :
            repo_df = WithLines(f, ls)
    /\ time_dtype = "datetime64"
    /\ total_lines_changed = 0
    /\ chart_modules = <<>>
    /\ data_dir = EmptyDataDir
    /\ max_prs = NoLimit
    /\ call = "none"
    /\ ret = NoneValue

NextPat == CalculatePat \/ GetApprovalTimeData

SpecPat == InitPat /\ [][NextPat]_vars

\* merge time: the frame is the one load() returns, time parsed
InitPmt ==
    /\ repo_df \in FramesUpTo(MaxMergeRows, PmtEvents)
    /\ time_dtype = "datetime64"
    /\ total_lines_changed = 0
    /\ chart_modules = <<>>
    /\ data_dir = EmptyDataDir
    /\ max_prs = NoLimit
    /\ call = "none"
    /\ ret = NoneValue

NextPmt == CalculatePmt

SpecPmt == InitPmt /\ [][NextPmt]_vars

\* review turnaround of one PR: the frame is the one load() returns
InitRtt ==
    /\ repo_df \in RttFrames
    /\ time_dtype = "datetime64"
    /\ total_lines_changed = 0
    /\ chart_modules = <<>>
    /\ data_dir = EmptyDataDir
    /\ max_prs = NoLimit
    /\ call = "none"
    /\ ret = NoneValue

NextRtt == CalculateRttStats

SpecRtt == InitRtt /\ [][NextRtt]_vars

\* review turnaround statistics over several PRs
InitRttStats ==
    /\ repo_df \in FramesUpTo(MaxStatRows, StatEvents)
    /\ time_dtype = "datetime64"
    /\ total_lines_changed = 0
    /\ chart_modules = <<>>
    /\ data_dir = EmptyDataDir
    /\ max_prs = NoLimit
    /\ call = "none"
    /\ ret = NoneValue

SpecRttStats == InitRttStats /\ [][NextRtt]_vars

\* review turnaround with requests and reviews whose user is missing
InitNullTarget ==
    /\ repo_df \in NullTargetFrames
    /\ time_dtype = "datetime64"
    /\ total_lines_changed = 0
    /\ chart_modules = <<>>
    /\ data_dir = EmptyDataDir
    /\ max_prs = NoLimit
    /\ call = "none"
    /\ ret = NoneValue

SpecNullTarget == InitNullTarget /\ [][NextRtt]_vars

\* review coverage
InitCoverage ==
    /\ repo_df \in Frames(CoverageEvents)
    /\ time_dtype = "datetime64"
    /\ total_lines_changed = 0
    /\ chart_modules = <<>>
    /\ data_dir = EmptyDataDir
    /\ max_prs = NoLimit
    /\ call = "none"
    /\ ret = NoneValue

NextCoverage == CalculateReviewRatioStats

SpecCoverage == InitCoverage /\ [][NextCoverage]_vars

\* review funnel: the data function and the render of the component
NextFunnel == GetReviewFunnelData \/ ReviewFunnelRender

SpecFunnel == InitCoverage /\ [][NextFunnel]_vars

\* contribution breakdown
InitContribution ==
    /\ repo_df \in Frames(ContributionEvents)
    /\ time_dtype = "datetime64"
    /\ total_lines_changed = 0
    /\ chart_modules = <<>>
    /\ data_dir = EmptyDataDir
    /\ max_prs = NoLimit
    /\ call = "none"
    /\ ret = NoneValue

NextContribution == GetContributionStats \/ AnalyzeBotActivity

SpecContribution == InitContribution /\ [][NextContribution]_vars

\* PR flow graph
NextSankey == PrepareSankeyData

SpecSankey == InitCoverage /\ [][NextSankey]_vars

\* every metric function on one frame, whose time column holds either the
\* strings of the event store or parsed instants
InitEngine ==
    /\ repo_df \in FramesUpTo(MaxEngineRows, EngineEvents)
    /\ time_dtype \in {"object", "datetime64"}
    /\ total_lines_changed = 0
    /\ chart_modules = <<>>
    /\ data_dir = EmptyDataDir
    /\ max_prs = NoLimit
    /\ call = "none"
    /\ ret = NoneValue

NextEngine ==
    \/ CalculatePat
    \/ CalculatePatBySize
    \/ GetApprovalTimeData
    \/ CalculatePmt
    \/ CalculateRttTrends
    \/ CalculateRttStats
    \/ CalculateReviewRatioStats
    \/ GetReviewFunnelData
    \/ GetContributionStats
    \/ AnalyzeBotActivity
    \/ PrepareSankeyData

SpecEngine == InitEngine /\ [][NextEngine]_vars

\* every metric function on a frame that lacks the event_type column, on
\* which repo_df["event_type"] raises KeyError
InitMalformed ==
    /\ repo_df \in MalformedFrames
    /\ time_dtype \in {"object", "datetime64"}
    /\ total_lines_changed = 0
    /\ chart_modules = <<>>
    /\ data_dir = EmptyDataDir
    /\ max_prs = NoLimit
    /\ call = "none"
    /\ ret = NoneValue

SpecMalformed == InitMalformed /\ [][NextEngine]_vars

\* the report of app.py: every discovered chart rendered on the loaded frame
InitRender ==
    /\ repo_df \in FramesUpTo(1, EngineEvents)
    /\ time_dtype = "datetime64"
    /\ total_lines_changed = 0
    /\ chart_modules \in ChartModules
    /\ data_dir = EmptyDataDir
    /\ max_prs = NoLimit
    /\ call = "none"
    /\ ret = NoneValue

NextRender == RenderCharts

SpecRender == InitRender /\ [][NextRender]_vars

\* the fetcher: runs of fetch_pull_requests on a repository directory that
\* starts empty
InitFetch ==
    /\ repo_df = <<>>
    /\ time_dtype = "datetime64"
    /\ total_lines_changed = 0
    /\ chart_modules = <<>>
    /\ data_dir = EmptyDataDir
    /\ max_prs = NoLimit
    /\ call = "none"
    /\ ret = NoneValue

NextFetch == FetchPullRequests

SpecFetch == InitFetch /\ [][NextFetch]_vars

\* the conversion of the timeline of a pull request into events
NextTimeline == ProcessTimelineEvents

SpecTimeline == InitFetch /\ [][NextTimeline]_vars

(***************************************************************************)
(* What the frame holds, stated apart from the metric code.                *)
(***************************************************************************)
RowsOf(p) == {i \in 1..Len(repo_df) : repo_df[i].pr_number = p}

HasEvent(p, e) == \E i \in RowsOf(p) : repo_df[i].event_type = e

TimesOf(p, e) == {repo_df[i].time : i \in {j \in RowsOf(p) : repo_df[j].event_type = e}}

\* x is the k-th smallest value of the family d (a function), by rank alone
IsKthSmallest(x, k, d) ==
    /\ \E p \in DOMAIN d : d[p] = x
    /\ Cardinality({p \in DOMAIN d : d[p] < x}) < k
    /\ k <= Cardinality({p \in DOMAIN d : d[p] <= x})

\* m is the median of the non-empty family d: its middle value by rank, the
\* midpoint of the two middle values when the count is even
IsMedianOf(m, d) ==
    LET n == Cardinality(DOMAIN d)
    IN  IF n % 2 = 1 THEN IsKthSmallest(m, (n + 1) \div 2, d)
        ELSE \E a, b \in {d[p] : p \in DOMAIN d} :
                /\ IsKthSmallest(a, n \div 2, d)
                /\ IsKthSmallest(b, n \div 2 + 1, d)
                /\ 2 * m = a + b

(***************************************************************************)
(* C1.  get_pr_size_category maps L lines changed to exactly one category: *)
(* XS when L < 10, S when 10 <= L < 100, M when 100 <= L < 500, L when     *)
(* 500 <= L < 1000, XL when L >= 1000.                                     *)
(***************************************************************************)
C1_SizeCategory ==
    call = "get_pr_size_category" =>
        LET L == total_lines_changed
        IN  /\ ret.type = "str"
            /\ (ret.s = "XS (<10 lines)") <=> (L < 10)
            /\ (ret.s = "S (10-99 lines)") <=> (10 <= L /\ L < 100)
            /\ (ret.s = "M (100-499 lines)") <=> (100 <= L /\ L < 500)
            /\ (ret.s = "L (500-999 lines)") <=> (500 <= L /\ L < 1000)
            /\ (ret.s = "XL (1000+ lines)") <=> (L >= 1000)

C1_Witness ==
    /\ call = "get_pr_size_category"
    /\ total_lines_changed = 999
    /\ ret = Str("L (500-999 lines)")

(***************************************************************************)
(* C2.  The approval-time metric uses exactly the PRs that have both a     *)
(* review_requested and a review_approved event: there is a result iff     *)
(* there is such a PR, the overall median is the median over those PRs of  *)
(* an approval time minus a request time of the PR, in hours, and the size *)
(* buckets count those PRs and no other.                                   *)
(***************************************************************************)
BothPRs ==
    {p \in PRNumbers : HasEvent(p, "review_requested") /\ HasEvent(p, "review_approved")}

\* the families of one (approval - request) duration per PR of BothPRs
ApprovalDurations ==
    {d \in [BothPRs -> {Hours(r, a) : r \in 0..MaxTime, a \in 0..MaxTime}] :
        \A p \in BothPRs :
            \E r \in TimesOf(p, "review_requested"), a \in TimesOf(p, "review_approved") :
                d[p] = Hours(r, a)}

\* the size category of PR p read off any row of it
CategoryOfPR(p) ==
    LET i == CHOOSE j \in RowsOf(p) : TRUE
    IN  get_pr_size_category(repo_df[i].lines_added + repo_df[i].lines_deleted)

C2_MedianOverBoth(m) ==
    /\ m.type = "float"
    /\ \E d \in ApprovalDurations : IsMedianOf(m.q, d)

C2_ApprovalTimeUsesBoth ==
    /\ call = "calculate_pat" =>
            IF BothPRs = {} THEN ret = NoneValue ELSE C2_MedianOverBoth(ret)
    /\ call = "get_approval_time_data" =>
            IF BothPRs = {} THEN ret = NoneValue
            ELSE /\ ret.type = "dict"
                 /\ C2_MedianOverBoth(ret.overall_median)
                 /\ DOMAIN ret.size_stats = {CategoryOfPR(p) : p \in BothPRs}
                 /\ \A c \in DOMAIN ret.size_stats :
                        ret.size_stats[c].pr_count =
                            Cardinality({p \in BothPRs : CategoryOfPR(p) = c})

\* PR 1 requested at 0 and approved at 1, PR 2 with only pr_created: the
\* overall median is 1 hour and PR 2's bucket is absent
C2_Witness ==
    /\ call = "get_approval_time_data"
    /\ Len(repo_df) = 3
    /\ TimesOf(1, "review_requested") = {0}
    /\ TimesOf(1, "review_approved") = {1}
    /\ \A i \in RowsOf(2) : repo_df[i].event_type = "pr_created"
    /\ RowsOf(2) # {}
    /\ ret.type = "dict"
    /\ ret.overall_median = Float(4)
    /\ CategoryOfPR(2) = "S (10-99 lines)"
    /\ DOMAIN ret.size_stats = {"XS (<10 lines)"}

(***************************************************************************)
(* C3.  The approval-time metric uses, for every PR, the earliest-by-time  *)
(* review_requested and the earliest-by-time review_approved event, so its *)
(* output is the same for every permutation of the rows of the frame.      *)
(***************************************************************************)
EarliestDurations ==
    [p \in BothPRs |->
        Hours(Min(TimesOf(p, "review_requested")), Min(TimesOf(p, "review_approved")))]

Permuted(df, perm) == [i \in 1..Len(df) |-> df[perm[i]]]

C3_EarliestByTime ==
    call = "calculate_pat" =>
        /\ BothPRs # {} => (ret.type = "float" /\ IsMedianOf(ret.q, EarliestDurations))
        /\ \A perm \in Permutations(1..Len(repo_df)) :
                calculate_pat(Permuted(repo_df, perm)) = ret

(***************************************************************************)
(* C4.  When the frame has exactly one pr_created and at most one          *)
(* pr_merged row per pr_number, calculate_pmt yields exactly one sample    *)
(* for each PR with both events, equal to merged time - created time in    *)
(* hours, and no sample for any other PR.                                  *)
(***************************************************************************)
CountOf(p, e) ==
    Cardinality({i \in RowsOf(p) : repo_df[i].event_type = e})

FramePRs == {repo_df[i].pr_number : i \in 1..Len(repo_df)}

DataModelInvariants ==
    \A p \in FramePRs : CountOf(p, "pr_created") = 1 /\ CountOf(p, "pr_merged") <= 1

MergedPRs == {p \in FramePRs : HasEvent(p, "pr_created") /\ HasEvent(p, "pr_merged")}

C4_OneSamplePerMergedPR ==
    (call = "calculate_pmt" /\ DataModelInvariants) =>
        IF MergedPRs = {} THEN ret = NoneTriple
        ELSE /\ ret.pr_times.type = "DataFrame"
             /\ \A p \in PRNumbers :
                    LET rows == ret.pr_times.rows
                        S == {i \in 1..Len(rows) : rows[i].pr_number = p}
                    IN  IF p \in MergedPRs
                        THEN /\ Cardinality(S) = 1
                             /\ \A i \in S : \A c \in TimesOf(p, "pr_created") :
                                    \A m \in TimesOf(p, "pr_merged") :
                                        rows[i].merge_time = 4 * m - 4 * c
                        ELSE S = {}

\* two PRs created and merged, each with its own duration
C4_Witness ==
    /\ call = "calculate_pmt"
    /\ DataModelInvariants
    /\ MergedPRs = {1, 2}
    /\ ret # NoneTriple
    /\ Len(ret.pr_times.rows) = 2
    /\ \E i, j \in 1..2 :
            ret.pr_times.rows[i].merge_time = 4 /\ ret.pr_times.rows[j].merge_time = 0

(***************************************************************************)
(* C5.  For every non-empty list of merge durations, the median reported   *)
(* by calculate_pmt equals the 50th-percentile value it reports.           *)
(***************************************************************************)
C5_MedianIsP50 ==
    (call = "calculate_pmt" /\ ret # NoneTriple) =>
        /\ ret.median_time = ret.percentile_values.values[2]
        /\ IsMedianOf(ret.percentile_values.values[2].q,
                       [i \in 1..Len(ret.pr_times.rows) |-> ret.pr_times.rows[i].merge_time])

\* an even number of durations with distinct middle values: the median is
\* interpolated between them
C5_Witness ==
    /\ call = "calculate_pmt"
    /\ ret # NoneTriple
    /\ Len(ret.pr_times.rows) = 4
    /\ ret.median_time = Float(2)
    /\ ret.percentile_values.values[2] = Float(2)
    /\ ret.percentile_values.values[1] # ret.percentile_values.values[3]

(***************************************************************************)
(* The review requests of the frame and the events that answer them,       *)
(* stated from the frame alone.                                            *)
(***************************************************************************)
RequestRows == {i \in 1..Len(repo_df) : repo_df[i].event_type = "review_requested"}

ReviewRows ==
    {j \in 1..Len(repo_df) :
        repo_df[j].event_type \in
            {"review_approved", "review_changes_requested", "review_commented"}}

\* the events that answer request i: a review by the requested reviewer on
\* the same PR, strictly after the request
Answers(i) ==
    {j \in ReviewRows :
        /\ repo_df[j].pr_number = repo_df[i].pr_number
        /\ repo_df[j].actor = repo_df[i].target_user
        /\ repo_df[j].time > repo_df[i].time}

\* hours from request i to the earliest event that answers it
AnswerDelay(i) == 4 * Min({repo_df[j].time : j \in Answers(i)}) - 4 * repo_df[i].time

SinglePR == Cardinality(FramePRs) = 1

(***************************************************************************)
(* C6.  For a PR with review_requested events, an event answers a request  *)
(* only if its actor is the request's target_user, its type is one of the  *)
(* three review types and its time is strictly after the request's; the    *)
(* sample is the time from an answered request to the earliest such event, *)
(* and there is no sample when no request is answered.                     *)
(***************************************************************************)
C6_AnswerRule ==
    (call = "calculate_rtt_stats" /\ SinglePR /\ RequestRows # {}) =>
        IF \A i \in RequestRows : Answers(i) = {} THEN ret = NoneValue
        ELSE /\ ret.type = "dict"
             /\ \E i \in RequestRows :
                    Answers(i) # {} /\ ret.median_hours = Float(AnswerDelay(i))

\* a request answered after a review by somebody else, which does not count
C6_Witness ==
    /\ call = "calculate_rtt_stats"
    /\ SinglePR
    /\ ret.type = "dict"
    /\ \E i \in RequestRows :
            /\ Answers(i) # {}
            /\ ret.median_hours = Float(AnswerDelay(i))
            /\ \E j \in ReviewRows :
                    /\ repo_df[j].actor # repo_df[i].target_user
                    /\ repo_df[j].time > repo_df[i].time
                    /\ 4 * repo_df[j].time - 4 * repo_df[i].time < AnswerDelay(i)

(***************************************************************************)
(* C7.  First-match rule: the requests of a PR are examined in time order  *)
(* and exactly one sample is emitted, for the first request that has an    *)
(* answer; every PR contributes at most one sample.                        *)
(***************************************************************************)
C7_FirstMatch ==
    (call = "calculate_rtt_stats" /\ SinglePR /\ ret # NoneValue) =>
        /\ ret.reviewed_prs = 1
        /\ RequestRows # {} =>
                \E i \in RequestRows :
                    /\ Answers(i) # {}
                    /\ \A k \in RequestRows :
                            repo_df[k].time < repo_df[i].time => Answers(k) = {}
                    /\ ret.median_hours = Float(AnswerDelay(i))

\* two requests of which only the later one is answered
C7_Witness ==
    /\ call = "calculate_rtt_stats"
    /\ SinglePR
    /\ ret.type = "dict"
    /\ ret.reviewed_prs = 1
    /\ \E i, k \in RequestRows :
            /\ repo_df[k].time < repo_df[i].time
            /\ Answers(k) = {}
            /\ Answers(i) # {}
            /\ ret.median_hours = Float(AnswerDelay(i))

(***************************************************************************)
(* C8.  For a PR with no review_requested event the sample is the time of  *)
(* the earliest review event, by any actor, minus the pr_created time;     *)
(* with no review event the PR contributes no sample.                      *)
(***************************************************************************)
C8_NoRequestRule ==
    (call = "calculate_rtt_stats" /\ SinglePR /\ RequestRows = {}) =>
        IF ReviewRows = {} THEN ret = NoneValue
        ELSE /\ ret.type = "dict"
             /\ ret.reviewed_prs = 1
             /\ \A p \in FramePRs : \A c \in TimesOf(p, "pr_created") :
                    ret.median_hours =
                        Float(4 * Min({repo_df[j].time : j \in ReviewRows}) - 4 * c)

\* reviews by both reviewers, the later one first in the frame, and a PR
\* created after time 0
C8_Witness ==
    /\ call = "calculate_rtt_stats"
    /\ RequestRows = {}
    /\ ret.type = "dict"
    /\ TimesOf(1, "pr_created") = {1}
    /\ ret.median_hours = Float(0)
    /\ \E j, k \in ReviewRows :
            j < k /\ repo_df[j].time > repo_df[k].time /\ repo_df[j].actor # repo_df[k].actor

(***************************************************************************)
(* C9.  The turnaround result reports reviewed_prs = the number of PRs     *)
(* that produced a sample, total_prs = the number of distinct PRs with a   *)
(* pr_created event, review_rate = reviewed_prs / total_prs x 100, and     *)
(* within_1h, within_4h, within_24h = the percentage of samples of at most *)
(* 1, 4 and 24 hours, so that within_1h <= within_4h <= within_24h <= 100  *)
(* and review_rate <= 100.                                                 *)
(***************************************************************************)
CreatedPRs == {p \in FramePRs : HasEvent(p, "pr_created")}

\* the PRs that produce a sample: created, and with an answered request, or
\* with no request and a review
SampledPRs ==
    {p \in CreatedPRs :
        IF HasEvent(p, "review_requested")
        THEN \E i \in RequestRows : repo_df[i].pr_number = p /\ Answers(i) # {}
        ELSE \E j \in ReviewRows : repo_df[j].pr_number = p}

\* the sample of a PR without request: earliest review - creation, in hours
DirectSample(p) ==
    4 * Min({repo_df[j].time : j \in {k \in ReviewRows : repo_df[k].pr_number = p}})
    - 4 * Min(TimesOf(p, "pr_created"))

\* the float f is the percentage part / whole x 100
IsPercentOf(f, part, whole) == f.num * whole = 100 * part * f.den

FracLeq(f, g) == f.num * g.den <= g.num * f.den

C9_TurnaroundStats ==
    call = "calculate_rtt_stats" =>
        IF SampledPRs = {} THEN ret = NoneValue
        ELSE /\ ret.type = "dict"
             /\ ret.reviewed_prs = Cardinality(SampledPRs)
             /\ ret.total_prs = Cardinality(CreatedPRs)
             /\ IsPercentOf(ret.review_rate, ret.reviewed_prs, ret.total_prs)
             /\ RequestRows = {} =>
                    \A x \in {<<ret.within_1h, 1>>, <<ret.within_4h, 4>>,
                               <<ret.within_24h, 24>>} :
                        IsPercentOf(x[1],
                            Cardinality({p \in SampledPRs : DirectSample(p) <= 4 * x[2]}),
                            Cardinality(SampledPRs))
             /\ FracLeq(ret.within_1h, ret.within_4h)
             /\ FracLeq(ret.within_4h, ret.within_24h)
             /\ FracLeq(ret.within_24h, Fraction(100, 1))
             /\ FracLeq(ret.review_rate, Fraction(100, 1))

\* two PRs reviewed after 4 h and 25 h, the first of them created twice in
\* the frame: half of the samples are within 4 h, none within 1 h
C9_Witness ==
    /\ call = "calculate_rtt_stats"
    /\ ret.type = "dict"
    /\ ret.total_prs = 2
    /\ ret.reviewed_prs = 2
    /\ ret.within_1h = Fraction(0, 1)
    /\ ret.within_4h = Fraction(50, 1)
    /\ ret.within_24h = Fraction(50, 1)
    /\ ret.review_rate = Fraction(100, 1)

(***************************************************************************)
(* C10.  calculate_review_ratio_stats counts a PR as reviewed iff its      *)
(* events include a review_commented, review_approved or                   *)
(* review_changes_requested event; total_prs is the number of distinct     *)
(* PRs, unreviewed_prs = total_prs - reviewed_prs and review_percentage =  *)
(* reviewed_prs / total_prs x 100.                                         *)
(***************************************************************************)
ReviewedPRs == {p \in FramePRs : \E j \in ReviewRows : repo_df[j].pr_number = p}

C10_ReviewCoverage ==
    call = "calculate_review_ratio_stats" =>
        IF Len(repo_df) = 0 THEN ret = NoneValue
        ELSE /\ ret.type = "dict"
             /\ ret.total_prs = Cardinality(FramePRs)
             /\ ret.reviewed_prs = Cardinality(ReviewedPRs)
             /\ ret.unreviewed_prs = Cardinality(FramePRs \ ReviewedPRs)
             /\ ret.unreviewed_prs = ret.total_prs - ret.reviewed_prs
             /\ IsPercentOf(ret.review_percentage, ret.reviewed_prs, ret.total_prs)

\* three PRs, two of them reviewed, the third with a review request only
C10_Witness ==
    /\ call = "calculate_review_ratio_stats"
    /\ ret.type = "dict"
    /\ ret.total_prs = 3
    /\ ret.reviewed_prs = 2
    /\ ret.unreviewed_prs = 1
    /\ ret.review_percentage = Fraction(200, 3)
    /\ \E p \in FramePRs \ ReviewedPRs : HasEvent(p, "review_requested")

(***************************************************************************)
(* C11.  Funnel monotonicity: for every non-empty frame,                   *)
(* get_review_funnel_data returns counts with approved_prs <= reviewed_prs *)
(* <= total_prs, where approved_prs is the number of PRs that have a       *)
(* review_approved event and reviewed_prs the number of PRs that have any  *)
(* review action.                                                          *)
(***************************************************************************)
ApprovedPRs == {p \in FramePRs : HasEvent(p, "review_approved")}

C11_FunnelMonotone ==
    (call = "get_review_funnel_data" /\ Len(repo_df) > 0) =>
        /\ ret.type = "dict"
        /\ ret.total_prs = Cardinality(FramePRs)
        /\ ret.reviewed_prs = Cardinality(ReviewedPRs)
        /\ ret.approved_prs = Cardinality(ApprovedPRs)
        /\ ret.approved_prs <= ret.reviewed_prs
        /\ ret.reviewed_prs <= ret.total_prs

\* three PRs: one approved, one only commented, one only requested
C11_Witness ==
    /\ call = "get_review_funnel_data"
    /\ ret.type = "dict"
    /\ ret.total_prs = 3
    /\ ret.reviewed_prs = 2
    /\ ret.approved_prs = 1
    /\ \E p \in FramePRs \ ReviewedPRs : HasEvent(p, "review_requested")

(***************************************************************************)
(* C12.  For a non-empty frame in which no PR has a review action, the     *)
(* render of review_funnel produces funnel data with total_prs,            *)
(* reviewed_prs = 0, approved_prs = 0, review_rate = 0 and approval_rate   *)
(* = 0: not an error and not the no-data result.                           *)
(***************************************************************************)
C12_ZeroApprovalRate ==
    (call = "review_funnel.render" /\ Len(repo_df) > 0 /\ ReviewedPRs = {}) =>
        /\ ret.review_data # NoneValue
        /\ ret.review_data.total_prs = Cardinality(FramePRs)
        /\ ret.review_data.reviewed_prs = 0
        /\ ret.review_data.approved_prs = 0
        /\ ret.review_data.review_rate = Fraction(0, 1)
        /\ ret.review_data.approval_rate = Fraction(0, 1)

(***************************************************************************)
(* C13.  get_contribution_stats takes one pr_created row per pr_number and *)
(* classifies each PR as exactly one of bot (is_bot, whatever              *)
(* is_core_team), core (not bot and is_core_team) or community (neither),  *)
(* so that bot_prs + core_prs + community_prs = total_prs, and each        *)
(* percentage is count / total_prs x 100 rounded to one decimal.           *)
(***************************************************************************)
\* the pr_created row of PR p that is taken: the first one of the frame
CreatedRow(p) ==
    repo_df[Min({i \in RowsOf(p) : repo_df[i].event_type = "pr_created"})]

BotPRs == {p \in CreatedPRs : CreatedRow(p).is_bot}

CorePRs == {p \in CreatedPRs : ~CreatedRow(p).is_bot /\ CreatedRow(p).is_core_team}

CommunityPRs == {p \in CreatedPRs : ~CreatedRow(p).is_bot /\ ~CreatedRow(p).is_core_team}

\* the float f, a number of tenths, is count / total x 100 to the nearest tenth
IsRoundedPercentOf(f, count, total) ==
    /\ f.type = "float"
    /\ 2 * (1000 * count - f.tenths * total) <= total
    /\ 2 * (f.tenths * total - 1000 * count) <= total

C13_ContributionPartition ==
    call = "get_contribution_stats" =>
        IF CreatedPRs = {} THEN ret = NoneValue
        ELSE /\ ret.type = "dict"
             /\ ret.total_prs = Cardinality(CreatedPRs)
             /\ ret.bot_prs = Cardinality(BotPRs)
             /\ ret.core_prs = Cardinality(CorePRs)
             /\ ret.community_prs = Cardinality(CommunityPRs)
             /\ ret.bot_prs + ret.core_prs + ret.community_prs = ret.total_prs
             /\ IsRoundedPercentOf(ret.bot_percentage, ret.bot_prs, ret.total_prs)
             /\ IsRoundedPercentOf(ret.core_percentage, ret.core_prs, ret.total_prs)
             /\ IsRoundedPercentOf(ret.community_percentage, ret.community_prs,
                                   ret.total_prs)

\* three PRs: one by a bot that is in the core team, one by a core human,
\* one by a community human; each share is 33.3
C13_Witness ==
    /\ call = "get_contribution_stats"
    /\ ret.type = "dict"
    /\ ret.total_prs = 3
    /\ ret.bot_prs = 1
    /\ ret.core_prs = 1
    /\ ret.community_prs = 1
    /\ ret.bot_percentage = Decimal1(333)
    /\ \E p \in BotPRs : CreatedRow(p).is_core_team

(***************************************************************************)
(* C14.  Flow-graph stage-1 conservation: in prepare_sankey_data the PRs   *)
(* with a review_requested event, the PRs with a review action and no      *)
(* review_requested event, and the remaining PRs are pairwise disjoint     *)
(* groups, each count is >= 0, and the three counts sum to total_prs.      *)
(***************************************************************************)
RequestedPRs == {p \in FramePRs : HasEvent(p, "review_requested")}

DirectPRs == ReviewedPRs \ RequestedPRs

NoReviewPRs == FramePRs \ (RequestedPRs \cup ReviewedPRs)

\* the value that the returned links carry from "PRs Created" to target
Stage1Value(target) ==
    SumSeq([k \in 1..Len(ret.links) |->
        IF ret.links[k].source = "PRs Created" /\ ret.links[k].target = target
        THEN ret.links[k].value ELSE 0])

C14_Stage1Conservation ==
    (call = "prepare_sankey_data" /\ Len(repo_df) > 0) =>
        /\ ret.type = "dict"
        /\ Stage1Value("Review Requested") = Cardinality(RequestedPRs)
        /\ Stage1Value("Direct Review") = Cardinality(DirectPRs)
        /\ Stage1Value("No Review") = Cardinality(NoReviewPRs)
        /\ Stage1Value("Review Requested") + Stage1Value("Direct Review")
            + Stage1Value("No Review") = Cardinality(FramePRs)
        /\ \A k \in 1..Len(ret.links) :
                ret.links[k].source = "PRs Created" => ret.links[k].value >= 0

\* a PR reviewed after a request and a PR reviewed without one: the first
\* counts as requested only
C14_Witness ==
    /\ call = "prepare_sankey_data"
    /\ ret.type = "dict"
    /\ Cardinality(FramePRs) = 2
    /\ Cardinality(RequestedPRs) = 1
    /\ Cardinality(DirectPRs) = 1
    /\ RequestedPRs \cap ReviewedPRs # {}
    /\ Stage1Value("Review Requested") = 1
    /\ Stage1Value("Direct Review") = 1
    /\ Stage1Value("No Review") = 0

(***************************************************************************)
(* C15.  Every link of the list returned by prepare_sankey_data has        *)
(* value > 0: a link whose count is 0, the three stage-1 links that are    *)
(* always appended included, is not in the output.                         *)
(***************************************************************************)
C15_PositiveLinks ==
    (call = "prepare_sankey_data" /\ Len(repo_df) > 0) =>
        /\ ret.type = "dict"
        /\ \A k \in 1..Len(ret.links) : ret.links[k].value > 0
        /\ \A x \in {<<"Review Requested", RequestedPRs>>, <<"Direct Review", DirectPRs>>,
                      <<"No Review", NoReviewPRs>>} :
                x[2] = {} =>
                    ~\E k \in 1..Len(ret.links) :
                        ret.links[k].source = "PRs Created" /\ ret.links[k].target = x[1]

\* every PR has a requested review: the links to No Review and to Direct
\* Review, appended with value 0, are not returned
C15_Witness ==
    /\ call = "prepare_sankey_data"
    /\ ret.type = "dict"
    /\ Cardinality(FramePRs) = 2
    /\ RequestedPRs = FramePRs
    /\ Len(ret.links) > 0
    /\ \A k \in 1..Len(ret.links) :
            /\ ret.links[k].value > 0
            /\ ret.links[k].target \notin {"No Review", "Direct Review"}

(***************************************************************************)
(* C16.  Every metric data function returns its empty result (None, an     *)
(* empty frame, a tuple of Nones) when the frame is empty, and also when   *)
(* it is not empty but no PR meets the precondition of the metric: no PR   *)
(* with a request and an approval (approval time), no PR with pr_created   *)
(* and pr_merged (merge time), no turnaround sample (turnaround), no       *)
(* pr_created row (contribution, bot analysis).                            *)
(***************************************************************************)
EmptyFrame == DataFrame(<<>>)

C16_EmptyResults ==
    /\ (call \in {"calculate_pat", "get_approval_time_data"} /\ BothPRs = {})
            => ret = NoneValue
    /\ (call = "calculate_pat_by_size" /\ BothPRs = {}) => ret = EmptyFrame
    /\ (call = "calculate_pmt" /\ MergedPRs = {}) => ret = NoneTriple
    /\ (call = "calculate_rtt_stats" /\ SampledPRs = {}) => ret = NoneValue
    /\ (call = "calculate_rtt_trends" /\ CreatedPRs \cap RequestedPRs = {})
            => ret = EmptyFrame
    /\ (call \in {"get_contribution_stats", "analyze_bot_activity"} /\ CreatedPRs = {})
            => ret = NoneValue
    /\ (call \in {"calculate_review_ratio_stats", "get_review_funnel_data",
                  "prepare_sankey_data"} /\ Len(repo_df) = 0)
            => ret = NoneValue

\* a frame with a request of one PR and an approval of the other: no PR has
\* both, and the approval-time data is None
C16_Witness ==
    /\ call = "get_approval_time_data"
    /\ Len(repo_df) > 0
    /\ RequestedPRs # {}
    /\ ApprovedPRs # {}
    /\ BothPRs = {}
    /\ ret = NoneValue

(***************************************************************************)
(* C19.  Idempotence: a metric computed twice in succession on the same    *)
(* frame returns the second time what it returned the first time; no       *)
(* metric keeps state between calls that changes its result.  (Requests of *)
(* one PR at the same instant are left out for the turnaround: their order *)
(* after the sort is fixed by the input but not by the model.)             *)
(***************************************************************************)
TiedRequests ==
    \E i, k \in RequestRows :
        /\ i # k
        /\ repo_df[i].pr_number = repo_df[k].pr_number
        /\ repo_df[i].time = repo_df[k].time

C20_InputUnchanged ==
    [][repo_df' = repo_df /\ time_dtype' = time_dtype]_vars

(***************************************************************************)
(* C17.  No metric function raises to its caller: when an unexpected       *)
(* internal failure occurs while a metric is computed, the function of     *)
(* that metric returns its empty-result sentinel and the exception does    *)
(* not propagate.                                                          *)
(***************************************************************************)
C17_NeverRaises ==
    call # "none" => ret.type # "raise"

(***************************************************************************)
(* C18.  Failure isolation in render_charts: for every list of discovered  *)
(* chart modules and every subset of them whose render raises,             *)
(* render_charts returns exactly one entry per discovered chart, in        *)
(* discovery order; the entry of a failing chart has html = None and the   *)
(* entry of every other chart carries that chart's own output.             *)
(***************************************************************************)
C18_FailureIsolation ==
    call = "render_charts" =>
        /\ ret.type = "list"
        /\ Len(ret.items) = Len(chart_modules)
        /\ \A k \in 1..Len(chart_modules) :
                /\ ret.items[k].name = chart_modules[k].name
                /\ chart_modules[k].render = "raises" => ret.items[k].html = NoneValue
                /\ chart_modules[k].render = "returns" =>
                        /\ ret.items[k].html.type = "html"
                        /\ ret.items[k].html.chart = chart_modules[k].name
                        /\ ret.items[k].html.rows = Len(repo_df)

\* three charts of which the first and the last render and the second fails
C18_Witness ==
    /\ call = "render_charts"
    /\ Len(chart_modules) = 3
    /\ chart_modules[1].render = "returns"
    /\ chart_modules[2].render = "raises"
    /\ chart_modules[3].render = "returns"
    /\ Len(ret.items) = 3
    /\ ret.items[2].html = NoneValue
    /\ ret.items[3].html.chart = chart_modules[3].name

(***************************************************************************)
(* C21.  A PR that has a review_requested event, none of whose requests is *)
(* answered by its requested reviewer, contributes no turnaround sample,   *)
(* even when other actors reviewed it: there is no fallback to the         *)
(* creation-to-first-review rule.                                          *)
(***************************************************************************)
C21_NoFallback ==
    (/\ call = "calculate_rtt_stats"
     /\ SinglePR
     /\ RequestRows # {}
     /\ \A i \in RequestRows : Answers(i) = {}) => ret = NoneValue

\* a review requested from one reviewer, and later reviews by the other one
\* only, after the creation of the PR
C21_Witness ==
    /\ call = "calculate_rtt_stats"
    /\ SinglePR
    /\ ret = NoneValue
    /\ \E i \in RequestRows :
            /\ \A k \in RequestRows : repo_df[k].target_user = repo_df[i].target_user
            /\ \E j \in ReviewRows :
                    /\ repo_df[j].actor # repo_df[i].target_user
                    /\ repo_df[j].time > repo_df[i].time
                    /\ repo_df[j].time > Min(TimesOf(1, "pr_created"))
            /\ \A j \in ReviewRows : repo_df[j].actor # repo_df[i].target_user

(***************************************************************************)
(* C22.  A review_requested event whose target_user is missing is skipped  *)
(* for matching in calculate_rtt_stats: it yields no sample, it does not   *)
(* match an event whose actor is missing too, the later requests of the PR *)
(* are still examined, and the samples of the other PRs are unaffected.    *)
(***************************************************************************)
NullUser(u) == u \in NullUsers

\* the requests of PR p that name a reviewer and that this reviewer answered
AnsweredRequests(p) ==
    {i \in RequestRows :
        /\ repo_df[i].pr_number = p
        /\ ~NullUser(repo_df[i].target_user)
        /\ Answers(i) # {}}

C22_NullTargetSkipped ==
    call = "calculate_rtt_stats" =>
        /\ ret.type = "dict"
        /\ ret.total_prs = 2
        /\ IF AnsweredRequests(1) = {}
           \* the sample of PR 2 alone: one hour
           THEN ret.reviewed_prs = 1 /\ ret.median_hours = Float(4)
           ELSE /\ ret.reviewed_prs = 2
                /\ \E i \in AnsweredRequests(1) :
                        2 * ret.median_hours.q = 4 + AnswerDelay(i)

\* a reviewer-less request followed by an approval whose author is missing
\* too: no sample for PR 1
C22_Witness ==
    /\ call = "calculate_rtt_stats"
    /\ ret.type = "dict"
    /\ ret.reviewed_prs = 1
    /\ \E i \in RequestRows : \E j \in ReviewRows :
            /\ repo_df[i].pr_number = 1 /\ repo_df[j].pr_number = 1
            /\ NullUser(repo_df[i].target_user)
            /\ repo_df[j].actor = repo_df[i].target_user
            /\ repo_df[j].time > repo_df[i].time

\* a reviewer-less request, then a request to bob that bob answers: the
\* later request gives the sample of PR 1
C22_LaterRequestWitness ==
    /\ call = "calculate_rtt_stats"
    /\ ret.type = "dict"
    /\ ret.reviewed_prs = 2
    /\ \E i \in AnsweredRequests(1) : \E k \in RequestRows :
            /\ NullUser(repo_df[k].target_user)
            /\ repo_df[k].time < repo_df[i].time

(***************************************************************************)
(* The flow graph returned by prepare_sankey_data, read from ret alone.    *)
(***************************************************************************)
\* the total value of the returned links from source to target
LinkSum(source, target) ==
    SumSeq([k \in 1..Len(ret.links) |->
        IF ret.links[k].source = source /\ ret.links[k].target = target
        THEN ret.links[k].value ELSE 0])

\* the total value of the returned links that enter node
Entering(node) ==
    SumSeq([k \in 1..Len(ret.links) |->
        IF ret.links[k].target = node THEN ret.links[k].value ELSE 0])

CommentedPRs == {p \in FramePRs : HasEvent(p, "review_commented")}

(***************************************************************************)
(* C23.  Stage-2 conservation per path: the links leaving Review Requested *)
(* sum to the number of PRs with a requested review, those with neither an *)
(* approval nor a comment counted to Approved; the links leaving Direct    *)
(* Review sum to the number of direct reviews, those with neither counted  *)
(* to Commented.                                                           *)
(***************************************************************************)
C23_Stage2Conservation ==
    (call = "prepare_sankey_data" /\ Len(repo_df) > 0) =>
        /\ ret.type = "dict"
        /\ \A k \in 1..Len(ret.links) :
                ret.links[k].source \in {"Review Requested", "Direct Review"} =>
                    ret.links[k].target \in {"Approved", "Commented"}
        /\ LinkSum("Review Requested", "Approved")
            + LinkSum("Review Requested", "Commented") = Cardinality(RequestedPRs)
        /\ LinkSum("Review Requested", "Commented") =
                Cardinality((RequestedPRs \cap CommentedPRs) \ ApprovedPRs)
        /\ LinkSum("Review Requested", "Approved") =
                Cardinality({p \in RequestedPRs : p \in ApprovedPRs \/ p \notin CommentedPRs})
        /\ LinkSum("Direct Review", "Approved")
            + LinkSum("Direct Review", "Commented") = Cardinality(DirectPRs)
        /\ LinkSum("Direct Review", "Approved") = Cardinality(DirectPRs \cap ApprovedPRs)
        /\ LinkSum("Direct Review", "Commented") = Cardinality(DirectPRs \ ApprovedPRs)

\* a PR with a request and nothing else, counted to Approved, and a PR with
\* changes requested directly, counted to Commented
C23_Witness ==
    /\ call = "prepare_sankey_data"
    /\ ret.type = "dict"
    /\ ApprovedPRs = {} /\ CommentedPRs = {}
    /\ Cardinality(RequestedPRs) = 1
    /\ Cardinality(DirectPRs) = 1
    /\ LinkSum("Review Requested", "Approved") = 1
    /\ LinkSum("Direct Review", "Commented") = 1

(***************************************************************************)
(* C24.  Stage 3: the link Approved -> Merged carries the number of PRs    *)
(* with a review_approved event, Commented -> Merged the number of PRs     *)
(* with a review_commented event and no review_approved event, No Review   *)
(* -> Merged the stage-1 no_review count; none is what stage 2 sent into   *)
(* the node.                                                               *)
(***************************************************************************)
C24_Stage3Global ==
    (call = "prepare_sankey_data" /\ Len(repo_df) > 0) =>
        /\ ret.type = "dict"
        /\ LinkSum("Approved", "Merged") = Cardinality(ApprovedPRs)
        /\ LinkSum("Commented", "Merged") = Cardinality(CommentedPRs \ ApprovedPRs)
        /\ LinkSum("No Review", "Merged") = Cardinality(NoReviewPRs)
        /\ LinkSum("No Review", "Merged") = LinkSum("PRs Created", "No Review")

\* an approved PR and a PR with an unanswered request: stage 2 sends two
\* PRs into Approved, one leaves it
C24_Witness ==
    /\ call = "prepare_sankey_data"
    /\ ret.type = "dict"
    /\ Cardinality(ApprovedPRs) = 1
    /\ Entering("Approved") = 2
    /\ LinkSum("Approved", "Merged") = 1

(***************************************************************************)
(* C29.  The returned link list holds at most one link for each pair       *)
(* (source, target).                                                       *)
(***************************************************************************)
C29_UniqueLinks ==
    (call = "prepare_sankey_data" /\ Len(repo_df) > 0) =>
        /\ ret.type = "dict"
        /\ \A j, k \in 1..Len(ret.links) :
                (ret.links[j].source = ret.links[k].source
                 /\ ret.links[j].target = ret.links[k].target) => j = k

(***************************************************************************)
(* C30.  For each of the nodes Approved and Commented the value of its     *)
(* link to Merged is at most the total value of the links entering it, and *)
(* the total value of the links entering Merged is at most total_prs.      *)
(***************************************************************************)
C30_NodeBalance ==
    (call = "prepare_sankey_data" /\ Len(repo_df) > 0) =>
        /\ ret.type = "dict"
        /\ LinkSum("Approved", "Merged") <= Entering("Approved")
        /\ LinkSum("Commented", "Merged") <= Entering("Commented")
        /\ Entering("Merged") <= Cardinality(FramePRs)

\* a PR approved and commented and a PR commented only: each node passes on
\* all that it received, and both PRs reach Merged
C30_Witness ==
    /\ call = "prepare_sankey_data"
    /\ ret.type = "dict"
    /\ Cardinality(FramePRs) = 2
    /\ ApprovedPRs \cap CommentedPRs # {}
    /\ CommentedPRs \ ApprovedPRs # {}
    /\ LinkSum("Approved", "Merged") = 1 /\ Entering("Approved") = 1
    /\ LinkSum("Commented", "Merged") = 1 /\ Entering("Commented") = 1
    /\ Entering("Merged") = 2

(***************************************************************************)
(* C25.  Every event that process_timeline_events emits has an event_type  *)
(* that is one of the eight values pr_created, commit_pushed,              *)
(* review_requested, review_approved, review_changes_requested,            *)
(* review_commented, pr_merged, comment_added, and the output holds        *)
(* exactly one pr_created event.                                           *)
(***************************************************************************)
EventTypes ==
    {"pr_created", "commit_pushed", "review_requested", "review_approved",
     "review_changes_requested", "review_commented", "pr_merged", "comment_added"}

C25_EventTypes ==
    call = "process_timeline_events" =>
        /\ \A k \in 1..Len(ret.items) : ret.items[k].event_type \in EventTypes
        /\ Cardinality({k \in 1..Len(ret.items) :
                            ret.items[k].event_type = "pr_created"}) = 1

(***************************************************************************)
(* C26.  The turnaround result for a given event collection does not       *)
(* depend on the metrics computed on the collection before it: it is what  *)
(* calculate_rtt_stats gives on the same rows whether the time column is   *)
(* still as it was given or has been converted by an earlier metric.       *)
(***************************************************************************)
C26_OrderIndependent ==
    call = "calculate_rtt_stats" =>
        \A dtype \in {"object", "datetime64"} :
            \E ord \in RequestOrders(repo_df) :
                ret = calculate_rtt_stats(repo_df, dtype, ord)

(***************************************************************************)
(* C27.  After fetch_pull_requests(max_prs=N) the number of PRs listed in  *)
(* pull_requests.csv that have saved events is at most the larger of N and *)
(* of that number before the call; when that number was already >= N the   *)
(* call saves no pull request and no event.                                *)
(***************************************************************************)
\* the number of stored PRs with saved events, as fetch_pull_requests counts
\* them, in the directory d
StoredWithEvents(d) == Cardinality(Range(d.pull_requests_csv) \cap d.events_csv)

C27_MaxPrsLimit ==
    [][(call' = "fetch_pull_requests" /\ max_prs' # NoLimit) =>
            /\ StoredWithEvents(data_dir') <= StoredWithEvents(data_dir)
               \/ StoredWithEvents(data_dir') <= max_prs'
            /\ StoredWithEvents(data_dir) >= max_prs' => data_dir' = data_dir]_vars

(***************************************************************************)
(* C28.  Whenever a run of fetch_pull_requests ends with consolidation,    *)
(* all_events.csv holds the events of every PR whose events.csv was saved  *)
(* by that run or by an earlier one.                                       *)
(***************************************************************************)
EndedWithConsolidation ==
    call = "fetch_pull_requests" /\ ret.type = "dict" /\ "message" \notin DOMAIN ret

C28_AllEventsConsolidated ==
    EndedWithConsolidation => data_dir.events_csv \subseteq data_dir.all_events_csv

=============================================================================
